---- MODULE Spec2Model ----
(***************************************************************************)
(* State-machine model of ASTCodebaseAnalyzer (src/src/tools/              *)
(* ASTCodebaseAnalyzer.ts): the tool's fields, the tool calls in flight    *)
(* (each suspended at one of the awaits of _run and of the methods it      *)
(* calls), the external vector store and the embedding service; and of two *)
(* objects with specifications of their own: the session memory of the     *)
(* command line agent (class SessionMemory, src/unnamed/part_000;          *)
(* MemorySpec) and the text-based CodebaseAnalyzer (src/src/tools/         *)
(* CodebaseAnalyzer.ts; CodebaseSpec). Each specification leaves the       *)
(* objects of the others as they are constructed.                          *)
(*                                                                         *)
(* Strings are sequences of one-character strings, so substring tests,     *)
(* lower-casing and whitespace splitting are computed as the code does.    *)
(* A number in [0,1] is kept exactly: a similarity is a fraction [n, d]    *)
(* and a threshold is an integer number of hundredths.                     *)
(***************************************************************************)
EXTENDS Integers, Sequences, FiniteSets, TLC

(***************************************************************************)
(* Bounds of the model.                                                    *)
(***************************************************************************)
\* Most tool calls started in one behaviour.
MaxCalls == 2
\* Largest max_results a call is given (the values are 1..MaxN).
MaxN == 2
\* Most embedding requests of index builds that fail in one behaviour.
MaxEmbedFailures == 1

\* Tool calls that can be in flight at the same time.
Calls == {1, 2}

(***************************************************************************)
(* Strings.                                                                *)
(***************************************************************************)
Min(a, b) == IF a <= b THEN a ELSE b
Max(a, b) == IF a >= b THEN a ELSE b

\* String.prototype.toLowerCase on the characters the model uses.
LowerChar(ch) ==
    CASE ch = "A" -> "a"
      [] ch = "D" -> "d"
      [] ch = "I" -> "i"
      [] ch = "S" -> "s"
      [] OTHER -> ch

toLowerCase(s) == [i \in 1..Len(s) |-> LowerChar(s[i])]

\* String.prototype.includes: the empty string is included in every string.
includes(s, sub) ==
    \E i \in 0..(Len(s) - Len(sub)) : SubSeq(s, i + 1, i + Len(sub)) = sub

\* The characters the regular expression \s matches.
IsSpace(ch) == ch \in {" ", "\n", "\t"}

\* String.prototype.split(/\s+/): cut at every maximal run of whitespace; a
\* leading or a trailing run leaves an empty first or last piece.
RECURSIVE splitWhitespace(_)
splitWhitespace(s) ==
    IF \A i \in 1..Len(s) : ~IsSpace(s[i])
    THEN <<s>>
    ELSE LET i == CHOOSE k \in 1..Len(s) :
                     IsSpace(s[k]) /\ \A m \in 1..(k - 1) : ~IsSpace(s[m])
             j == CHOOSE k \in (i + 1)..(Len(s) + 1) :
                     /\ (k = Len(s) + 1 \/ ~IsSpace(s[k]))
                     /\ \A m \in i..(k - 1) : IsSpace(s[m])
         IN  <<SubSeq(s, 1, i - 1)>> \o splitWhitespace(SubSeq(s, j, Len(s)))

\* String.prototype.split('\n').
RECURSIVE splitLines(_)
splitLines(s) ==
    IF \A i \in 1..Len(s) : s[i] # "\n"
    THEN <<s>>
    ELSE LET i == CHOOSE k \in 1..Len(s) :
                     s[k] = "\n" /\ \A m \in 1..(k - 1) : s[m] # "\n"
         IN  <<SubSeq(s, 1, i - 1)>> \o splitLines(SubSeq(s, i + 1, Len(s)))

\* Array.prototype.join.
RECURSIVE join(_, _)
join(parts, sep) ==
    IF Len(parts) = 0 THEN <<>>
    ELSE IF Len(parts) = 1 THEN parts[1]
    ELSE parts[1] \o sep \o join(Tail(parts), sep)

\* [...new Set(xs)]: the first occurrence of every element, in order.
RECURSIVE dedupe(_)
dedupe(xs) ==
    IF Len(xs) = 0 THEN <<>>
    ELSE LET front == dedupe(SubSeq(xs, 1, Len(xs) - 1))
             last == xs[Len(xs)]
         IN  IF \E i \in 1..Len(front) : front[i] = last
             THEN front ELSE Append(front, last)

\* Array.prototype.slice(0, n) for n >= 0.
slice0(xs, n) == SubSeq(xs, 1, Min(n, Len(xs)))


(***************************************************************************)
(* The file system the tool is run against, and what the Babel parser and  *)
(* its traversal report for every file: the nodes the six visitors of      *)
(* extractASTNodes are called with, in traversal order.                    *)
(*   /A/a.js   function add(a, b) { return a + b; }                        *)
(*   /A/k.ts   class Add {}                                                *)
(*             const f = () => 1;                                          *)
(*   /B/e.js   function (             (a syntax error)                     *)
(*   /B/s.ts   import x from 'y';                                          *)
(*             interface I { n: number }                                   *)
(*   /X        does not exist                                              *)
(*   /C        a tree for the walk: big.js (one character longer than      *)
(*             parseFileAST accepts), link (neither file nor directory),   *)
(*             n/ (a chain of directories n/n/.../n: the one at level 10   *)
(*             holds f.js and one more n/, which holds g.js),              *)
(*             node_modules/m.js, notes.md; every file but big.js reads    *)
(*             class Add {}                                                *)
(*   /L        l.js (class Add {}) and locked/, a directory the process    *)
(*             may not read: readdirSync throws EACCES                     *)
(*   /E        an empty directory                                          *)
(*   /U        u.js, a file the process may not read: readFileSync throws  *)
(*   /M/m.js   function add(a) { return a; }                               *)
(*             add = function (a) {}                                       *)
(*             class Add {}                                                *)
(*             type Add = 1                                                *)
(*   /M/p.png  a picture                                                   *)
(***************************************************************************)
PathA == << <<"A">> >>
PathB == << <<"B">> >>
PathX == << <<"X">> >>
FileK == << <<"A">>, <<"k", ".", "t", "s">> >>
FileAdd == << <<"A">>, <<"a", ".", "j", "s">> >>
FileS == << <<"B">>, <<"s", ".", "t", "s">> >>
FileE == << <<"B">>, <<"e", ".", "j", "s">> >>
PathC == << <<"C">> >>
PathL == << <<"L">> >>
PathE == << <<"E">> >>
PathU == << <<"U">> >>
PathM == << <<"M">> >>

\* The paths a call can carry; NoPath is a call without a path.
NoPath == <<>>
Paths == {PathA, PathB, PathX}

\* Deepest directory level parseDirectoryAST reads (the root is level 0).
MaxDepth == 10
\* Longest file content, in characters, parseFileAST parses.
MaxFileLength == 100000

\* The directory k levels below /C on the chain n/n/.../n.
Deep(k) == PathC \o [i \in 1..k |-> <<"n">>]
DirModules == << <<"C">>, <<"n", "o", "d", "e", "_", "m", "o", "d", "u", "l", "e", "s">> >>
DirLocked == << <<"L">>, <<"l", "o", "c", "k", "e", "d">> >>
FileBig == << <<"C">>, <<"b", "i", "g", ".", "j", "s">> >>
FileNotes == << <<"C">>, <<"n", "o", "t", "e", "s", ".", "m", "d">> >>
FileModule == Append(DirModules, <<"m", ".", "j", "s">>)
FileDeepest == Append(Deep(MaxDepth), <<"f", ".", "j", "s">>)
FileTooDeep == Append(Deep(MaxDepth + 1), <<"g", ".", "j", "s">>)
FileL == << <<"L">>, <<"l", ".", "j", "s">> >>
FileU == << <<"U">>, <<"u", ".", "j", "s">> >>
FileM == << <<"M">>, <<"m", ".", "j", "s">> >>
FilePng == << <<"M">>, <<"p", ".", "p", "n", "g">> >>

\* The directories and the files of the file system.
Directories ==
    {PathA, PathB, PathC, PathL, PathE, PathU, PathM, DirModules, DirLocked}
      \cup {Deep(k) : k \in 1..(MaxDepth + 1)}
Files ==
    {FileK, FileAdd, FileS, FileE, FileBig, FileNotes, FileModule, FileDeepest,
     FileTooDeep, FileL, FileU, FileM, FilePng}

\* fs.existsSync and fs.statSync(...).isDirectory().
existsSync(p) == p \in Directories \cup Files
isDirectory(p) == p \in Directories

\* The entry of a file and of a directory, as readdirSync returns them.
FileEntry(name) == [name |-> name, isDir |-> FALSE, isFile |-> TRUE]
DirEntry(name) == [name |-> name, isDir |-> TRUE, isFile |-> FALSE]

\* fs.readdirSync(dir) throws (EACCES).
readdirThrows(dir) == dir = DirLocked

\* fs.readdirSync(dir, {withFileTypes: true}): the entries in directory order.
readdirSync(dir) ==
    CASE dir = PathA -> << [name |-> <<"a", ".", "j", "s">>, isDir |-> FALSE, isFile |-> TRUE],
                           [name |-> <<"k", ".", "t", "s">>, isDir |-> FALSE, isFile |-> TRUE] >>
      [] dir = PathB -> << [name |-> <<"e", ".", "j", "s">>, isDir |-> FALSE, isFile |-> TRUE],
                           [name |-> <<"s", ".", "t", "s">>, isDir |-> FALSE, isFile |-> TRUE] >>
      [] dir = PathC -> << FileEntry(<<"b", "i", "g", ".", "j", "s">>),
                           [name |-> <<"l", "i", "n", "k">>, isDir |-> FALSE, isFile |-> FALSE],
                           DirEntry(<<"n">>),
                           DirEntry(<<"n", "o", "d", "e", "_", "m", "o", "d", "u", "l", "e", "s">>),
                           FileEntry(<<"n", "o", "t", "e", "s", ".", "m", "d">>) >>
      [] dir = DirModules -> << FileEntry(<<"m", ".", "j", "s">>) >>
      [] dir = Deep(MaxDepth) -> << FileEntry(<<"f", ".", "j", "s">>), DirEntry(<<"n">>) >>
      [] dir = Deep(MaxDepth + 1) -> << FileEntry(<<"g", ".", "j", "s">>) >>
      [] dir \in {Deep(k) : k \in 1..(MaxDepth - 1)} -> << DirEntry(<<"n">>) >>
      [] dir = PathL -> << FileEntry(<<"l", ".", "j", "s">>),
                           DirEntry(<<"l", "o", "c", "k", "e", "d">>) >>
      [] dir = PathU -> << FileEntry(<<"u", ".", "j", "s">>) >>
      [] dir = PathM -> << FileEntry(<<"m", ".", "j", "s">>),
                           FileEntry(<<"p", ".", "p", "n", "g">>) >>
      [] OTHER -> <<>>

\* The content of big.js: one character more than parseFileAST accepts.
ClassText == <<"c", "l", "a", "s", "s", " ", "A", "d", "d", " ", "{", "}">>
BigContent == ClassText \o [i \in 1..(MaxFileLength + 1 - Len(ClassText)) |-> " "]

\* The content of m.js.
ModuleText ==
    <<"f", "u", "n", "c", "t", "i", "o", "n", " ", "a", "d", "d", "(", "a", ")", " ", "{", " ", "r", "e", "t", "u", "r", "n", " ", "a", ";", " ", "}", "\n",
      "a", "d", "d", " ", "=", " ", "f", "u", "n", "c", "t", "i", "o", "n", " ", "(", "a", ")", " ", "{", "}", "\n",
      "c", "l", "a", "s", "s", " ", "A", "d", "d", " ", "{", "}", "\n",
      "t", "y", "p", "e", " ", "A", "d", "d", " ", "=", " ", "1">>

\* fs.readFileSync(file) throws (EACCES).
readFileThrows(file) == file = FileU

\* fs.readFileSync(file, 'utf-8').
readFileSync(file) ==
    CASE file = FileK -> <<"c", "l", "a", "s", "s", " ", "A", "d", "d", " ", "{", "}", "\n", "c", "o", "n", "s", "t", " ", "f", " ", "=", " ", "(", ")", " ", "=", ">", " ", "1", ";">>
      [] file = FileAdd -> <<"f", "u", "n", "c", "t", "i", "o", "n", " ", "a", "d", "d", "(", "a", ",", " ", "b", ")", " ", "{", " ", "r", "e", "t", "u", "r", "n", " ", "a", " ", "+", " ", "b", ";", " ", "}">>
      [] file = FileE -> <<"f", "u", "n", "c", "t", "i", "o", "n", " ", "(">>
      [] file = FileS -> <<"i", "m", "p", "o", "r", "t", " ", "x", " ", "f", "r", "o", "m", " ", "'", "y", "'", ";", "\n", "i", "n", "t", "e", "r", "f", "a", "c", "e", " ", "I", " ", "{", " ", "n", ":", " ", "n", "u", "m", "b", "e", "r", " ", "}">>
      [] file = FileBig -> BigContent
      [] file \in {FileNotes, FileModule, FileDeepest, FileTooDeep, FileL} -> ClassText
      [] file = FileM -> ModuleText
      [] OTHER -> <<>>

\* A name that is absent (node.id undefined): falsy, like the empty string.
NoName == <<>>

\* One node handed to a visitor. idName: node.id.name; parentType and
\* parentName: path.parent and the name of its id (VariableDeclarator) or of
\* its left side (AssignmentExpression); declarators: the names of
\* node.declarations; source: node.source.value; params: the parameter names;
\* refs: the callee names and non-binding identifiers of the subtree, in
\* traversal order; branches: the branching nodes of the subtree.
AstNode(type, idName, start, end, line) ==
    [type |-> type, idName |-> idName, start |-> start, end |-> end,
     line |-> line, parentType |-> "Program", parentName |-> NoName,
     declarators |-> <<>>, source |-> NoName, params |-> <<>>,
     refs |-> <<>>, branches |-> 0]

\* babelParse followed by traverse: the visited nodes of a file.
babelParse(file) ==
    CASE file = FileK ->
           << AstNode("ClassDeclaration", <<"A", "d", "d">>, 0, 12, 1),
              [AstNode("VariableDeclaration", NoName, 13, 31, 2)
                 EXCEPT !.declarators = << <<"f">> >>],
              [AstNode("ArrowFunctionExpression", NoName, 23, 30, 2)
                 EXCEPT !.parentType = "VariableDeclarator",
                        !.parentName = <<"f">>] >>
      [] file = FileAdd ->
           << [AstNode("FunctionDeclaration", <<"a", "d", "d">>, 0, 36, 1)
                 EXCEPT !.params = << <<"a">>, <<"b">> >>,
                        !.refs = << <<"a">>, <<"b">> >>] >>
      [] file = FileS ->
           << [AstNode("ImportDeclaration", NoName, 0, 18, 1)
                 EXCEPT !.source = <<"y">>],
              AstNode("TSInterfaceDeclaration", <<"I">>, 19, 44, 2) >>
      [] file \in {FileBig, FileNotes, FileModule, FileDeepest, FileTooDeep, FileL} ->
           << AstNode("ClassDeclaration", <<"A", "d", "d">>, 0, 12, 1) >>
      [] OTHER -> <<>>

\* babelParse throws a SyntaxError for the file: caught and logged by
\* parseJavaScriptAST, before extractASTNodes is reached.
babelParseThrows(file) == file = FileE

(***************************************************************************)
(* Paths (node's path module).                                             *)
(***************************************************************************)
\* path.join(dir, name).
pathJoin(dir, name) == Append(dir, name)

\* path.extname(file).toLowerCase(): from the last dot of the last segment,
\* empty when there is no dot or the only dot is the first character.
extname(file) ==
    LET base == file[Len(file)]
        dots == {i \in 2..Len(base) : base[i] = "."}
    IN  IF dots = {} THEN <<>>
        ELSE LET d == CHOOSE i \in dots : \A k \in dots : k <= i
             IN  toLowerCase(SubSeq(base, d, Len(base)))

\* path.relative(from, to): up from `from` to the common ancestor, then down.
relative(from, to) ==
    LET common == {k \in 0..Min(Len(from), Len(to)) :
                     \A i \in 1..k : from[i] = to[i]}
        k == CHOOSE n \in common : \A m \in common : m <= n
        ups == [i \in 1..(Len(from) - k) |-> <<".", ".">>]
    IN  join(ups \o SubSeq(to, k + 1, Len(to)), <<"/">>)

(***************************************************************************)
(* Chunk extraction.                                                       *)
(***************************************************************************)
\* The file extensions parseFileAST accepts.
supportedExtensions ==
    { <<".", "j", "s">>, <<".", "t", "s">>, <<".", "j", "s", "x">>,
      <<".", "t", "s", "x">>, <<".", "m", "j", "s">> }

\* Directory names parseDirectoryAST does not descend into.
skipDirs ==
    { <<"n", "o", "d", "e", "_", "m", "o", "d", "u", "l", "e", "s">>,
      <<".", "g", "i", "t">>, <<"d", "i", "s", "t">>,
      <<"b", "u", "i", "l", "d">>, <<".", "n", "e", "x", "t">>,
      <<"c", "o", "v", "e", "r", "a", "g", "e">> }

\* Lines of context kept before and after the line of a chunk.
ContextLines == 3

extractNodeContent(content, node) == SubSeq(content, node.start + 1, node.end)

extractContext(lines, lineNumber) ==
    LET start == Max(0, lineNumber - ContextLines - 1)
        end == Min(Len(lines), lineNumber + ContextLines)
    IN  join(SubSeq(lines, start + 1, end), <<"\n">>)

extractDependencies(node) == dedupe(node.refs)

calculateASTComplexity(node) == 1 + node.branches

\* determineScope is called with the path of the visited node itself.
determineScope(node) ==
    CASE node.type = "Program" -> "global"
      [] node.type \in {"FunctionDeclaration", "ArrowFunctionExpression"} -> "function"
      [] node.type = "ClassDeclaration" -> "class"
      [] node.type = "BlockStatement" -> "block"
      [] OTHER -> "local"

\* The object a visitor passes to addASTNode. A complexity of 0 and an
\* empty dependency list stand for absent metadata: the code reads both
\* through `|| 0`, `|| 1` and `|| []`.
ASTNodeRecord(type, name, content, filePath, node, complexity, deps, scope, category) ==
    [type |-> type, name |-> name, content |-> extractNodeContent(content, node),
     location |-> [file |-> filePath, start |-> node.start, end |-> node.end,
                   line |-> node.line],
     metadata |-> [complexity |-> complexity, dependencies |-> deps,
                   parameters |-> node.params, scope |-> scope,
                   category |-> category]]

\* The id template of addCodeChunk: file, line and name joined by colons.
chunkId(file, line, name) == file \o <<":">> \o <<ToString(line)>> \o <<":">> \o name

\* addCodeChunk: the chunk a visitor passes in, with its id; it has no
\* embedding yet (NoEmbedding).
NoEmbedding == -1
addCodeChunk(type, name, content, filePath, node, deps) ==
    [id |-> chunkId(filePath, node.line, name),
     type |-> type, name |-> name,
     content |-> extractNodeContent(content, node),
     file |-> filePath, line |-> node.line,
     context |-> extractContext(splitLines(content), node.line),
     dependencies |-> deps, embedding |-> NoEmbedding]

\* The name the ArrowFunctionExpression visitor gives the function.
arrowName(node) ==
    IF node.parentType = "VariableDeclarator" /\ node.parentName # NoName
    THEN node.parentName
    ELSE IF node.parentType = "AssignmentExpression" /\ node.parentName # NoName
    THEN node.parentName
    ELSE <<"a", "n", "o", "n", "y", "m", "o", "u", "s">>

\* One visitor call: the AST nodes and the chunks it adds, in order.
visit(node, content, filePath) ==
    CASE node.type = "FunctionDeclaration" ->
           IF node.idName = NoName THEN [nodes |-> <<>>, chunks |-> <<>>]
           ELSE [nodes |-> << ASTNodeRecord("function", node.idName, content, filePath,
                                 node, calculateASTComplexity(node), <<>>,
                                 determineScope(node), "declaration") >>,
                 chunks |-> << addCodeChunk("function", node.idName, content, filePath,
                                 node, extractDependencies(node)) >>]
      [] node.type = "ArrowFunctionExpression" ->
           [nodes |-> << ASTNodeRecord("arrow_function", arrowName(node), content,
                            filePath, node, calculateASTComplexity(node), <<>>,
                            determineScope(node), "expression") >>,
            chunks |-> << addCodeChunk("function", arrowName(node), content, filePath,
                            node, extractDependencies(node)) >>]
      [] node.type = "ClassDeclaration" ->
           IF node.idName = NoName THEN [nodes |-> <<>>, chunks |-> <<>>]
           ELSE [nodes |-> << ASTNodeRecord("class", node.idName, content, filePath,
                                 node, 0, <<>>, determineScope(node), "declaration") >>,
                 chunks |-> << addCodeChunk("class", node.idName, content, filePath,
                                 node, extractDependencies(node)) >>]
      [] node.type = "TSInterfaceDeclaration" ->
           IF node.idName = NoName THEN [nodes |-> <<>>, chunks |-> <<>>]
           ELSE [nodes |-> << ASTNodeRecord("interface", node.idName, content, filePath,
                                 node, 0, <<>>, determineScope(node), "type_definition") >>,
                 chunks |-> << addCodeChunk("interface", node.idName, content, filePath,
                                 node, extractDependencies(node)) >>]
      [] node.type = "ImportDeclaration" ->
           LET importSource == IF node.source = NoName
                               THEN <<"u", "n", "k", "n", "o", "w", "n">>
                               ELSE node.source
           IN  [nodes |-> << ASTNodeRecord("import", importSource, content, filePath,
                                node, 0, <<importSource>>, "module", "import") >>,
                chunks |-> << addCodeChunk("import", importSource, content, filePath,
                                node, <<importSource>>) >>]
      [] node.type = "VariableDeclaration" ->
           LET named == SelectSeq(node.declarators, LAMBDA d : d # NoName)
           IN  [nodes |-> [i \in 1..Len(named) |->
                             ASTNodeRecord("variable", named[i], content, filePath,
                                 node, 0, <<>>, determineScope(node), "declaration")],
                chunks |-> [i \in 1..Len(named) |->
                             addCodeChunk("variable", named[i], content, filePath,
                                 node, extractDependencies(node))]]
      [] OTHER -> [nodes |-> <<>>, chunks |-> <<>>]

\* extractASTNodes whose ImportDeclaration visitor adds the node without the
\* chunk.
RECURSIVE extractASTNodesImportNodeOnly(_, _, _)
extractASTNodesImportNodeOnly(ast, content, filePath) ==
    IF Len(ast) = 0 THEN [nodes |-> <<>>, chunks |-> <<>>]
    ELSE LET first == visit(ast[1], content, filePath)
             rest == extractASTNodesImportNodeOnly(Tail(ast), content, filePath)
         IN  [nodes |-> first.nodes \o rest.nodes,
              chunks |-> (IF ast[1].type = "ImportDeclaration" THEN <<>>
                          ELSE first.chunks) \o rest.chunks]

\* extractASTNodes: the visitors applied to the traversal of one file.
RECURSIVE extractASTNodes(_, _, _)
extractASTNodes(ast, content, filePath) ==
    IF Len(ast) = 0 THEN [nodes |-> <<>>, chunks |-> <<>>]
    ELSE LET first == visit(ast[1], content, filePath)
             rest == extractASTNodes(Tail(ast), content, filePath)
         IN  [nodes |-> first.nodes \o rest.nodes,
              chunks |-> first.chunks \o rest.chunks]

\* parseFileAST and parseJavaScriptAST: what one file adds to astNodes and
\* codeChunks when this.currentPath is `current`.
parseFileAST(file, current) ==
    IF readdirThrows(file) \/ extname(file) \notin supportedExtensions
         \/ readFileThrows(file)
    THEN [nodes |-> <<>>, chunks |-> <<>>]
    ELSE LET content == readFileSync(file)
         IN  IF Len(content) > MaxFileLength
             THEN [nodes |-> <<>>, chunks |-> <<>>]
             ELSE IF babelParseThrows(file)
             THEN [nodes |-> <<>>, chunks |-> <<>>]
             ELSE extractASTNodes(babelParse(file), content, relative(current, file))

\* The walk ends in an exception: the last thing it came to is a directory
\* that readdirSync throws for.
walkThrows(visited) == Len(visited) > 0 /\ readdirThrows(visited[Len(visited)])

\* parseDirectoryAST that descends into the directories of skipDirs too.
RECURSIVE parseDirectoryASTNoSkip(_, _)
parseDirectoryASTNoSkip(dirPath, depth) ==
    IF depth > MaxDepth THEN <<>>
    ELSE IF readdirThrows(dirPath) THEN <<dirPath>>
    ELSE LET entries == readdirSync(dirPath)
             RECURSIVE each(_)
             each(i) ==
                 IF i > Len(entries) THEN <<>>
                 ELSE LET fullPath == pathJoin(dirPath, entries[i].name)
                          here == IF entries[i].isDir
                                  THEN parseDirectoryASTNoSkip(fullPath, depth + 1)
                                  ELSE IF entries[i].isFile THEN <<fullPath>>
                                  ELSE <<>>
                      IN  IF walkThrows(here) THEN here ELSE here \o each(i + 1)
         IN  each(1)

\* parseDirectoryAST: the files handed to parseFileAST, in order. When
\* readdirSync throws for a directory the walk ends there: the directory is
\* the last element of the result.
RECURSIVE parseDirectoryAST(_, _)
parseDirectoryAST(dirPath, depth) ==
    IF depth > MaxDepth THEN <<>>
    ELSE IF readdirThrows(dirPath) THEN <<dirPath>>
    ELSE LET entries == readdirSync(dirPath)
             RECURSIVE each(_)
             each(i) ==
                 IF i > Len(entries) THEN <<>>
                 ELSE LET fullPath == pathJoin(dirPath, entries[i].name)
                          here == IF entries[i].isDir
                                  THEN IF entries[i].name \in skipDirs THEN <<>>
                                       ELSE parseDirectoryAST(fullPath, depth + 1)
                                  ELSE IF entries[i].isFile THEN <<fullPath>>
                                  ELSE <<>>
                      IN  IF walkThrows(here) THEN here ELSE here \o each(i + 1)
         IN  each(1)

(***************************************************************************)
(* Search.                                                                 *)
(***************************************************************************)
\* similarity >= threshold, for a similarity n/d and a threshold in hundredths.
atLeast(similarity, threshold) == similarity.n * 100 >= threshold * similarity.d

\* (similarity * 100).toFixed(1), in tenths of a percent.
toFixed1(similarity) == (similarity.n * 2000 + similarity.d) \div (2 * similarity.d)

\* calculateTextSimilarity that leaves the context of the chunk out of the
\* text it looks the terms up in.
calculateTextSimilarityNoContext(query, chunk) ==
    LET queryWords == splitWhitespace(toLowerCase(query))
        chunkText == toLowerCase(chunk.name \o <<" ">> \o chunk.content)
        matches == Len(SelectSeq(queryWords, LAMBDA word : includes(chunkText, word)))
    IN  [n |-> matches, d |-> Len(queryWords)]

calculateTextSimilarity(query, chunk) ==
    LET queryWords == splitWhitespace(toLowerCase(query))
        chunkText == toLowerCase(chunk.name \o <<" ">> \o chunk.content
                                   \o <<" ">> \o chunk.context)
        matches == SelectSeq(queryWords, LAMBDA word : includes(chunkText, word))
    IN  [n |-> Len(matches), d |-> Len(queryWords)]

\* One block of the formatted output: what the text shows of a result
\* (name, type, file, line, percentage) and the similarity it was shown for.
resultBlock(name, type, file, line, similarity) ==
    [name |-> name, type |-> type, file |-> file, line |-> line,
     similarity |-> similarity, shown |-> toFixed1(similarity)]

\* formatInMemorySearchResults that keeps a result only when its similarity
\* is above the threshold.
formatInMemorySearchResultsStrict(results, threshold) ==
    LET kept == SelectSeq(results, LAMBDA r :
                    r.similarity.n * 100 > threshold * r.similarity.d)
    IN  [backend |-> "lexical",
         blocks |-> [i \in 1..Len(kept) |->
                       resultBlock(kept[i].chunk.name, kept[i].chunk.type,
                                   kept[i].chunk.file, kept[i].chunk.line,
                                   kept[i].similarity)]]

formatInMemorySearchResults(results, threshold) ==
    LET kept == SelectSeq(results, LAMBDA r : atLeast(r.similarity, threshold))
    IN  [backend |-> "lexical",
         blocks |-> [i \in 1..Len(kept) |->
                       resultBlock(kept[i].chunk.name, kept[i].chunk.type,
                                   kept[i].chunk.file, kept[i].chunk.line,
                                   kept[i].similarity)]]

\* performInMemorySearch whose filter does not look at the type of a chunk.
performInMemorySearchAnyType(codeChunks, query, threshold, maxResults, codeType) ==
    LET queryLower == toLowerCase(query)
        filtered == SelectSeq(codeChunks, LAMBDA chunk :
                        \/ includes(toLowerCase(chunk.content), queryLower)
                        \/ includes(toLowerCase(chunk.name), queryLower)
                        \/ includes(toLowerCase(chunk.context), queryLower))
        sliced == slice0(filtered, maxResults)
        results == [i \in 1..Len(sliced) |->
                      [chunk |-> sliced[i],
                       similarity |-> calculateTextSimilarity(query, sliced[i]),
                       context |-> sliced[i].context]]
    IN  formatInMemorySearchResults(results, threshold)

\* performInMemorySearch without the slice(0, maxResults).
performInMemorySearchNoSlice(codeChunks, query, threshold, maxResults, codeType) ==
    LET queryLower == toLowerCase(query)
        filtered == SelectSeq(codeChunks, LAMBDA chunk :
                        /\ (codeType = "all" \/ chunk.type = codeType)
                        /\ \/ includes(toLowerCase(chunk.content), queryLower)
                           \/ includes(toLowerCase(chunk.name), queryLower)
                           \/ includes(toLowerCase(chunk.context), queryLower))
        results == [i \in 1..Len(filtered) |->
                      [chunk |-> filtered[i],
                       similarity |-> calculateTextSimilarity(query, filtered[i]),
                       context |-> filtered[i].context]]
    IN  formatInMemorySearchResults(results, threshold)

\* The lexical search: the chunks of the type asked for that contain the
\* whole lower-cased query, the first maxResults of them, each with its
\* similarity; formatInMemorySearchResults then drops those below threshold.
performInMemorySearch(codeChunks, query, threshold, maxResults, codeType) ==
    LET queryLower == toLowerCase(query)
        filtered == SelectSeq(codeChunks, LAMBDA chunk :
                        /\ (codeType = "all" \/ chunk.type = codeType)
                        /\ \/ includes(toLowerCase(chunk.content), queryLower)
                           \/ includes(toLowerCase(chunk.name), queryLower)
                           \/ includes(toLowerCase(chunk.context), queryLower))
        sliced == slice0(filtered, maxResults)
        results == [i \in 1..Len(sliced) |->
                      [chunk |-> sliced[i],
                       similarity |-> calculateTextSimilarity(query, sliced[i]),
                       context |-> sliced[i].context]]
    IN  formatInMemorySearchResults(results, threshold)

(***************************************************************************)
(* The embedding service and the vector store (external).                  *)
(***************************************************************************)
\* The type of a chunk as text.
typeText(type) ==
    CASE type = "function" -> <<"f", "u", "n", "c", "t", "i", "o", "n">>
      [] type = "class" -> <<"c", "l", "a", "s", "s">>
      [] type = "interface" -> <<"i", "n", "t", "e", "r", "f", "a", "c", "e">>
      [] type = "import" -> <<"i", "m", "p", "o", "r", "t">>
      [] OTHER -> <<"v", "a", "r", "i", "a", "b", "l", "e">>

createEmbeddingText(chunk) ==
    join(<< <<"T", "y", "p", "e", ":", " ">> \o typeText(chunk.type),
            <<"N", "a", "m", "e", ":", " ">> \o chunk.name,
            <<"F", "i", "l", "e", ":", " ">> \o chunk.file,
            <<"C", "o", "n", "t", "e", "n", "t", ":", " ">> \o chunk.content,
            <<"C", "o", "n", "t", "e", "x", "t", ":", " ">> \o chunk.context,
            <<"D", "e", "p", "e", "n", "d", "e", "n", "c", "i", "e", "s", ":", " ">> \o join(chunk.dependencies, <<",", " ">>) >>,
         <<"\n">>)

\* The embedding model is a function of the text. Its vectors are three
\* directions, named 0, 1 and 2; cosineDistance is the distance of two of
\* them in hundredths (0: the same direction, 150: nearly opposite).
embeddingOf(text) == Len(text) % 3
cosineDistance(a, b) == 75 * (IF a >= b THEN a - b ELSE b - a)

\* What storeInVectorDatabase sends for one chunk (the document, which is
\* createEmbeddingText of the chunk again, is not kept in the model).
indexEntry(chunk) ==
    [id |-> chunk.id, embedding |-> chunk.embedding,
     metadata |-> [type |-> chunk.type, name |-> chunk.name,
                   file |-> chunk.file, line |-> chunk.line]]

\* collection.add: rejected when two entries of the request share an id;
\* an entry whose id is already stored is ignored.
collectionAdd(collection, entries) ==
    IF \E i, j \in 1..Len(entries) : i # j /\ entries[i].id = entries[j].id
    THEN collection
    ELSE collection \o SelectSeq(entries, LAMBDA e :
             \A k \in 1..Len(collection) : collection[k].id # e.id)

\* The entries ordered by distance to the query, nearest first (stable).
RECURSIVE nearestFirst(_, _)
nearestFirst(entries, queryEmbedding) ==
    IF Len(entries) = 0 THEN <<>>
    ELSE LET dist(e) == cosineDistance(e.embedding, queryEmbedding)
             m == CHOOSE i \in 1..Len(entries) :
                     /\ \A k \in 1..Len(entries) : dist(entries[i]) <= dist(entries[k])
                     /\ \A k \in 1..(i - 1) : dist(entries[k]) > dist(entries[i])
             rest == SubSeq(entries, 1, m - 1) \o SubSeq(entries, m + 1, Len(entries))
         IN  <<entries[m]>> \o nearestFirst(rest, queryEmbedding)

\* collection.query({queryEmbeddings, nResults, where}): the nResults
\* nearest entries that satisfy the where clause, with their distances.
collectionQuery(collection, queryEmbedding, nResults, codeType) ==
    LET matching == SelectSeq(collection, LAMBDA e :
                        codeType = "all" \/ e.metadata.type = codeType)
        nearest == slice0(nearestFirst(matching, queryEmbedding), nResults)
    IN  [i \in 1..Len(nearest) |->
           [metadata |-> nearest[i].metadata,
            distance |-> cosineDistance(nearest[i].embedding, queryEmbedding)]]

formatSearchResults(results, threshold) ==
    LET similarity(r) == [n |-> 100 - r.distance, d |-> 100]
        kept == SelectSeq(results, LAMBDA r : atLeast(similarity(r), threshold))
    IN  [backend |-> "vector",
         blocks |-> [i \in 1..Len(kept) |->
                       resultBlock(kept[i].metadata.name, kept[i].metadata.type,
                                   kept[i].metadata.file, kept[i].metadata.line,
                                   similarity(kept[i]))]]

(***************************************************************************)
(* The tool and its calls.                                                 *)
(***************************************************************************)
VARIABLES
    chromaClient,   \* this.chromaClient is set
    vectorDB,       \* this.vectorDB: "null", "connected" (isInitialized) or
                    \* "unavailable" (set, isInitialized false)
    heap,           \* the arrays this.codeChunks has pointed to and that are
                    \* still referenced, by identity
    codeChunks,     \* this.codeChunks: the identity of the current array
    astNodes,       \* this.astNodes
    currentPath,    \* this.currentPath (NoPath: null)
    collection,     \* the entries of the collection in the vector store
    apiKey,         \* process.env.OPENAI_API_KEY is set
    overlap,        \* the caller makes calls while earlier ones are in flight
    walks,          \* the caller works on the trees /C and /L and asks for
                    \* dependency graphs
    failures,       \* embedding requests of index builds that failed so far
    calls,          \* the calls of _run that have not returned yet
    started         \* calls started so far

analyzerVars == <<chromaClient, vectorDB, heap, codeChunks, astNodes, currentPath,
                  collection, apiKey, overlap, walks, failures, calls, started>>

\* The session memory of the command line agent (class SessionMemory).
VARIABLES
    memory,         \* the object: its entries and its maxEntries
    history,        \* every entry added since construction or the last
                    \* clear(), in order (not a field of the code)
    clock,          \* the time new Date() returns
    memOps          \* calls of addEntry and clear() so far

memVars == <<memory, history, clock, memOps>>

\* new SessionMemory(): maxEntries defaults to 100.
DefaultMaxEntries == 100
SessionMemory(maxEntries) == [entries |-> <<>>, maxEntries |-> maxEntries]

\* The session memory while the analyzer is looked at: new and untouched.
MemoryParked ==
    /\ memory = SessionMemory(DefaultMaxEntries)
    /\ history = <<>>
    /\ clock = 0
    /\ memOps = 0

\* The text-based codebase analyzer (class CodebaseAnalyzer).
VARIABLES
    codebaseIndex,  \* this.codebaseIndex
    codebasePath,   \* this.currentPath of the CodebaseAnalyzer
    analyzedOk,     \* the index is the one an analyze operation that
                    \* returned has left (not a field of the code)
    output          \* what the last call of _run returned or threw

codebaseVars == <<codebaseIndex, codebasePath, analyzedOk, output>>

vars == <<analyzerVars, memVars, codebaseVars>>

\* this.codebaseIndex = null.
NoIndex == [isNull |-> TRUE, files |-> <<>>, totalFiles |-> 0, totalLines |-> 0,
            languages |-> <<>>]
NoOutput == [operation |-> "none", kind |-> "none", text |-> "none",
             thrownBy |-> "none", results |-> <<>>, primary |-> "none",
             query |-> <<>>]

\* The codebase analyzer while the other objects are looked at: new.
CodebaseParked ==
    /\ codebaseIndex = NoIndex
    /\ codebasePath = <<>>
    /\ analyzedOk = FALSE
    /\ output = NoOutput

\* The inputs of a call. NoQuery is an absent (or empty) query.
NoQuery == <<>>
Queries == { <<"a", "d", "d", " ", "n", "u", "m", "b", "e", "r", "s">>, <<"A", "D", "D">>, <<"c", "l", "a", "s", "s">> }
Thresholds == {0, 70, 100}
CodeTypes == {"all", "function", "class"}

Input(operation, path, query, threshold, maxResults, codeType) ==
    [operation |-> operation, path |-> path, query |-> query,
     threshold |-> threshold, maxResults |-> maxResults, codeType |-> codeType]

\* What a caller that waits for each call before it makes the next can pass.
Inputs ==
    { Input("analyze_ast", p, NoQuery, 70, MaxN, "all") : p \in Paths \cup {NoPath, FileAdd} }
    \cup { Input("semantic_search", p, NoQuery, 70, MaxN, "all") : p \in {NoPath, PathA} }
    \cup { Input("semantic_search", PathX, <<"c", "l", "a", "s", "s">>, 70, MaxN, "all") }
    \cup { Input("explain_semantic", x[1], x[2], 70, MaxN, "all") :
             x \in {NoPath, PathA} \X (Queries \cup {NoQuery}) }
    \cup { Input("semantic_search", x[1], x[2], x[3], x[4], x[5]) :
             x \in {NoPath, PathA, PathB} \X Queries \X Thresholds \X (1..MaxN) \X CodeTypes }
    \cup { Input("find_similar", x[1], x[2], x[3], MaxN, "class") :
             x \in {NoPath, PathA} \X (Queries \cup {NoQuery}) \X {0, 70} }

\* What a caller that works on the trees /C and /L and asks for dependency
\* graphs passes, waiting for each call before it makes the next.
WalkInputs ==
    { Input("analyze_ast", p, NoQuery, 70, MaxN, "all") : p \in {PathA, PathC, PathL} }
    \cup { Input("dependency_graph", p, NoQuery, 70, MaxN, "all") :
             p \in {NoPath, PathA, PathB} }
    \cup { Input("semantic_search", p, <<"c", "l", "a", "s", "s">>, 0, MaxN, "all") :
             p \in {NoPath, PathC, PathL} }

\* What a caller that makes a call while another is in flight passes.
OverlapInputs ==
    { Input("analyze_ast", p, NoQuery, 70, MaxN, "all") : p \in {PathA, PathB} }
    \cup { Input("semantic_search", NoPath, <<"A", "D", "D">>, 0, MaxN, "all") }

\* What a call returns: the text of a StringToolOutput ("text"), one of the
\* 'Error: ...' texts of _run ("error"), or an exception ("throw"). note is
\* what explainCodeSemantically makes of the search results: followed by
\* the hint to set up an API key ("no_key"), followed by the warning that
\* the explanation failed ("warning"), or replaced by the explanation
\* ("explanation"). graph is what the text of a dependency graph shows.
NoSummary == [path |-> NoPath, nodes |-> 0, chunks |-> 0, embedded |-> 0, status |-> ""]
NoResult ==
    [kind |-> "none", backend |-> "none", blocks |-> <<>>, summary |-> NoSummary,
     note |-> "none", graph |-> <<>>]

\* A call: where it is suspended (pc), its input, and the locals that live
\* across its awaits: the files parseDirectoryAST has still to visit, the
\* array and position of the loop of generateEmbeddings, the entries sent to
\* collection.add. old is not a local of the code: it records the current
\* path and the ids of the chunk set at the time of the call, for properties
\* that compare the state after a call with the state before it.
NoOld == [path |-> NoPath, ids |-> {}]
IdleCall ==
    [pc |-> "idle", input |-> Input("none", NoPath, NoQuery, 0, 0, "all"),
     files |-> <<>>, arr |-> 0, idx |-> 0, batch |-> <<>>, result |-> NoResult,
     old |-> NoOld]

\* The fields of the tool, as one record.
Tool ==
    [chromaClient |-> chromaClient, vectorDB |-> vectorDB, heap |-> heap,
     codeChunks |-> codeChunks, astNodes |-> astNodes,
     currentPath |-> currentPath, collection |-> collection]

isInitialized(db) == db = "connected"

Done(cl, result) ==
    [IdleCall EXCEPT !.pc = "done", !.input = cl.input, !.result = result,
                     !.old = cl.old]

\* Identities for arrays: one per call in flight and one more are enough.
ArrayIds == 0..Cardinality(Calls)

\* formatASTAnalysisResult: the head of the summary.
formatASTAnalysisResult(tool) ==
    [NoResult EXCEPT
       !.kind = "text",
       !.summary = [path |-> tool.currentPath,
                    nodes |-> Len(tool.astNodes),
                    chunks |-> Len(tool.heap[tool.codeChunks]),
                    embedded |-> Len(SelectSeq(tool.heap[tool.codeChunks],
                                     LAMBDA ch : ch.embedding # NoEmbedding)),
                    status |-> IF isInitialized(tool.vectorDB)
                               THEN "Connected" ELSE "In-Memory Mode"]]

\* The arguments performSemanticSearch is called with: those of the input,
\* or the fixed ones of explainCodeSemantically (0.6, 5, 'all'), or those of
\* findSimilarCode (the threshold and limit of the input, and 'all').
ExplainThreshold == 60
ExplainMaxResults == 5

\* searchInput that lets findSimilarCode pass the kind filter of the input.
searchInputKeepsKind(input) ==
    IF input.operation = "explain_semantic"
    THEN [input EXCEPT !.threshold = ExplainThreshold,
                       !.maxResults = ExplainMaxResults, !.codeType = "all"]
    ELSE input

searchInput(input) ==
    IF input.operation = "explain_semantic"
    THEN [input EXCEPT !.threshold = ExplainThreshold,
                       !.maxResults = ExplainMaxResults, !.codeType = "all"]
    ELSE IF input.operation = "find_similar"
    THEN [input EXCEPT !.codeType = "all"]
    ELSE input

\* What becomes of the text performSemanticSearch returns: _run returns it,
\* or explainCodeSemantically goes on with it: without an API key it returns
\* the text followed by a hint, else it awaits generateText.
searchReturns(cl, result) ==
    IF cl.input.operation = "explain_semantic"
    THEN IF ~apiKey
         THEN Done(cl, [result EXCEPT !.note = "no_key"])
         ELSE [cl EXCEPT !.pc = "explaining", !.result = result]
    ELSE Done(cl, result)

\* explainResponse that lets the failure of generateText reach the caller.
explainResponseThrows(tool, cl, ok) ==
    [tool |-> tool,
     cl |-> IF ok
            THEN Done(cl, [NoResult EXCEPT !.kind = "text", !.note = "explanation"])
            ELSE Done(cl, [NoResult EXCEPT !.kind = "throw"])]

\* The answer of generateText: the explanation alone, or on failure the
\* search results followed by a warning.
explainResponse(tool, cl, ok) ==
    [tool |-> tool,
     cl |-> IF ok
            THEN Done(cl, [NoResult EXCEPT !.kind = "text", !.note = "explanation"])
            ELSE Done(cl, [cl.result EXCEPT !.note = "warning"])]

\* The lexical search of a call, over the current array.
inMemoryResult(tool, input) ==
    LET out == performInMemorySearch(tool.heap[tool.codeChunks], input.query,
                   input.threshold, input.maxResults, input.codeType)
    IN  [NoResult EXCEPT !.kind = "text", !.backend = out.backend,
                         !.blocks = out.blocks]

\* performSemanticSearch up to its first await: the lexical search when the
\* vector store is not initialised, else the request for the query embedding.
performSemanticSearch(tool, cl) ==
    IF ~isInitialized(tool.vectorDB)
    THEN [tool |-> tool,
          cl |-> searchReturns(cl, inMemoryResult(tool, searchInput(cl.input)))]
    ELSE [tool |-> tool, cl |-> [cl EXCEPT !.pc = "query_embedding"]]

\* The Map of generateDependencyGraph after the loop over the nodes: the
\* keys in the order they were first set, each with the value it was last
\* set to.
RECURSIVE dependencyMap(_)
dependencyMap(nodes) ==
    IF Len(nodes) = 0 THEN <<>>
    ELSE LET before == dependencyMap(SubSeq(nodes, 1, Len(nodes) - 1))
             node == nodes[Len(nodes)]
             name == IF node.name = NoName THEN <<"u", "n", "k", "n", "o", "w", "n">>
                     ELSE node.name
             deps == dedupe(node.metadata.dependencies)
             at == {i \in 1..Len(before) : before[i].name = name}
         IN  IF at = {} THEN Append(before, [name |-> name, deps |-> deps])
             ELSE [i \in 1..Len(before) |->
                     IF i \in at THEN [name |-> name, deps |-> deps] ELSE before[i]]

\* Dependencies listed under one name of the dependency graph.
MaxListed == 10

\* generateDependencyGraph: for every name with dependencies, the first ten
\* of them and how many more there are.
generateDependencyGraph(tool) ==
    LET shown == SelectSeq(dependencyMap(tool.astNodes), LAMBDA e : Len(e.deps) > 0)
    IN  [NoResult EXCEPT
           !.kind = "text",
           !.graph = [i \in 1..Len(shown) |->
                        [name |-> shown[i].name,
                         deps |-> slice0(shown[i].deps, MaxListed),
                         more |-> Max(0, Len(shown[i].deps) - MaxListed)]]]

\* The switch of _run, up to the first await of the operation.
runOperation(tool, cl) ==
    CASE cl.input.operation = "analyze_ast" ->
           IF cl.input.path = NoPath
           THEN [tool |-> tool, cl |-> Done(cl, [NoResult EXCEPT !.kind = "error"])]
           ELSE [tool |-> tool, cl |-> Done(cl, formatASTAnalysisResult(tool))]
      [] cl.input.operation = "dependency_graph" ->
           [tool |-> tool, cl |-> Done(cl, generateDependencyGraph(tool))]
      [] OTHER ->
           IF cl.input.query = NoQuery
           THEN [tool |-> tool, cl |-> Done(cl, [NoResult EXCEPT !.kind = "error"])]
           ELSE performSemanticSearch(tool, cl)

\* An identity no reference holds: not the current array, not the array of
\* a loop of generateEmbeddings that is still running.
freshArray(tool, others) ==
    CHOOSE a \in ArrayIds :
        /\ a \notin {others[c].arr : c \in {k \in DOMAIN others : others[k].pc = "embedding"}}
        /\ \A b \in ArrayIds :
             b \notin {others[c].arr : c \in {k \in DOMAIN others : others[k].pc = "embedding"}}
             => a <= b

\* analyzeCodebaseAST that does not walk a directory that is the current path.
analyzeCodebaseASTSkipsCurrent(tool, cl, others) ==
    LET targetPath == cl.input.path IN
    IF ~existsSync(targetPath) \/ ~isDirectory(targetPath)
    THEN [tool |-> tool, cl |-> Done(cl, [NoResult EXCEPT !.kind = "throw"])]
    ELSE LET files == IF tool.currentPath = targetPath THEN <<>>
                      ELSE parseDirectoryAST(targetPath, 0)
             first == IF Len(files) = 0 THEN [nodes |-> <<>>, chunks |-> <<>>]
                      ELSE parseFileAST(files[1], targetPath)
             a == freshArray(tool, others)
         IN  [tool |-> [tool EXCEPT !.currentPath = targetPath,
                                    !.astNodes = first.nodes,
                                    !.codeChunks = a,
                                    !.heap = (a :> first.chunks) @@ tool.heap],
              cl |-> IF Len(files) > 0 /\ readdirThrows(files[1])
                     THEN Done(cl, [NoResult EXCEPT !.kind = "throw"])
                     ELSE [cl EXCEPT !.pc = IF Len(files) <= 1 THEN "embed" ELSE "parse",
                                     !.files = IF Len(files) = 0 THEN <<>> ELSE Tail(files)]]

\* analyzeCodebaseAST where the walk ends at a first file that fails to parse.
analyzeCodebaseASTStopsAtFailure(tool, cl, others) ==
    LET targetPath == cl.input.path IN
    IF ~existsSync(targetPath) \/ ~isDirectory(targetPath)
    THEN [tool |-> tool, cl |-> Done(cl, [NoResult EXCEPT !.kind = "throw"])]
    ELSE LET found == parseDirectoryAST(targetPath, 0)
             files == IF Len(found) > 0 /\ babelParseThrows(found[1])
                      THEN <<>> ELSE found
             first == IF Len(files) = 0 THEN [nodes |-> <<>>, chunks |-> <<>>]
                      ELSE parseFileAST(files[1], targetPath)
             a == freshArray(tool, others)
         IN  [tool |-> [tool EXCEPT !.currentPath = targetPath,
                                    !.astNodes = first.nodes,
                                    !.codeChunks = a,
                                    !.heap = (a :> first.chunks) @@ tool.heap],
              cl |-> IF Len(files) > 0 /\ readdirThrows(files[1])
                     THEN Done(cl, [NoResult EXCEPT !.kind = "throw"])
                     ELSE [cl EXCEPT !.pc = IF Len(files) <= 1 THEN "embed" ELSE "parse",
                                     !.files = IF Len(files) = 0 THEN <<>> ELSE Tail(files)]]

\* analyzeCodebaseAST that resets the three fields before it checks the path.
analyzeCodebaseASTResetsFirst(tool, cl, others) ==
    LET targetPath == cl.input.path
        a == freshArray(tool, others)
        reset == [tool EXCEPT !.currentPath = targetPath, !.astNodes = <<>>,
                              !.codeChunks = a, !.heap = (a :> <<>>) @@ tool.heap]
    IN
    IF ~existsSync(targetPath) \/ ~isDirectory(targetPath)
    THEN [tool |-> reset, cl |-> Done(cl, [NoResult EXCEPT !.kind = "throw"])]
    ELSE LET files == parseDirectoryAST(targetPath, 0)
             first == IF Len(files) = 0 THEN [nodes |-> <<>>, chunks |-> <<>>]
                      ELSE parseFileAST(files[1], targetPath)
         IN  [tool |-> [reset EXCEPT !.astNodes = first.nodes,
                                     !.heap = (a :> first.chunks) @@ tool.heap],
              cl |-> IF Len(files) > 0 /\ readdirThrows(files[1])
                     THEN Done(cl, [NoResult EXCEPT !.kind = "throw"])
                     ELSE [cl EXCEPT !.pc = IF Len(files) <= 1 THEN "embed" ELSE "parse",
                                     !.files = IF Len(files) = 0 THEN <<>> ELSE Tail(files)]]

\* analyzeCodebaseAST up to its first await: the path checks, the reset of
\* the three fields, and parseDirectoryAST up to the await of the first file.
analyzeCodebaseAST(tool, cl, others) ==
    LET targetPath == cl.input.path IN
    IF ~existsSync(targetPath) \/ ~isDirectory(targetPath)
    THEN [tool |-> tool, cl |-> Done(cl, [NoResult EXCEPT !.kind = "throw"])]
    ELSE LET files == parseDirectoryAST(targetPath, 0)
             first == IF Len(files) = 0 THEN [nodes |-> <<>>, chunks |-> <<>>]
                      ELSE parseFileAST(files[1], targetPath)
             a == freshArray(tool, others)
         IN  [tool |-> [tool EXCEPT !.currentPath = targetPath,
                                    !.astNodes = first.nodes,
                                    !.codeChunks = a,
                                    !.heap = (a :> first.chunks) @@ tool.heap],
              cl |-> IF Len(files) > 0 /\ readdirThrows(files[1])
                     THEN Done(cl, [NoResult EXCEPT !.kind = "throw"])
                     ELSE [cl EXCEPT !.pc = IF Len(files) <= 1 THEN "embed" ELSE "parse",
                                     !.files = IF Len(files) = 0 THEN <<>> ELSE Tail(files)]]

\* dispatch that builds the index whenever the call carries a path.
dispatchAlwaysBuilds(tool, cl, others) ==
    IF cl.input.path # NoPath
    THEN analyzeCodebaseAST(tool, cl, others)
    ELSE runOperation(tool, cl)

\* _run from the test of the path to the first await after it.
dispatch(tool, cl, others) ==
    IF /\ cl.input.path # NoPath
       /\ (cl.input.operation = "analyze_ast" \/ tool.currentPath # cl.input.path)
    THEN analyzeCodebaseAST(tool, cl, others)
    ELSE runOperation(tool, cl)

\* The next file of parseDirectoryAST: parseFileAST pushes onto whatever
\* this.astNodes and this.codeChunks are now, with paths relative to
\* whatever this.currentPath is now. When the walk comes to a directory
\* that readdirSync throws for, the exception ends the call.
parseNextFile(tool, cl) ==
    LET out == parseFileAST(cl.files[1], tool.currentPath) IN
    [tool |-> [tool EXCEPT !.astNodes = @ \o out.nodes,
                           !.heap[tool.codeChunks] = @ \o out.chunks],
     cl |-> IF readdirThrows(cl.files[1])
            THEN Done(cl, [NoResult EXCEPT !.kind = "throw"])
            ELSE [cl EXCEPT !.files = Tail(@),
                            !.pc = IF Len(cl.files) = 1 THEN "embed" ELSE "parse"]]

\* generateEmbeddings up to its first await: nothing without an API key;
\* else the loop over the array this.codeChunks is now, suspended in the
\* request for its first chunk.
generateEmbeddings(tool, cl) ==
    IF ~apiKey \/ Len(tool.heap[tool.codeChunks]) = 0
    THEN [tool |-> tool, cl |-> [cl EXCEPT !.pc = "store"]]
    ELSE [tool |-> tool,
          cl |-> [cl EXCEPT !.pc = "embedding", !.arr = tool.codeChunks, !.idx = 1]]

\* embeddingResponse where a failed request ends the call with the error.
embeddingResponseAborts(tool, cl, ok) ==
    LET chunk == tool.heap[cl.arr][cl.idx]
        heap1 == [tool.heap EXCEPT ![cl.arr][cl.idx].embedding =
                      embeddingOf(createEmbeddingText(chunk))]
    IN  IF ~ok
        THEN [tool |-> tool, cl |-> Done(cl, [NoResult EXCEPT !.kind = "throw"])]
        ELSE [tool |-> [tool EXCEPT !.heap = heap1],
              cl |-> IF cl.idx < Len(heap1[cl.arr])
                     THEN [cl EXCEPT !.idx = @ + 1]
                     ELSE [cl EXCEPT !.pc = "store", !.arr = 0, !.idx = 0]]

\* The answer to one embedding request: the chunk gets its embedding when
\* the request succeeded; then the loop goes on to the next element of its
\* array, if the array has one by now.
embeddingResponse(tool, cl, ok) ==
    LET chunk == tool.heap[cl.arr][cl.idx]
        heap1 == IF ok
                 THEN [tool.heap EXCEPT ![cl.arr][cl.idx].embedding =
                           embeddingOf(createEmbeddingText(chunk))]
                 ELSE tool.heap
    IN  [tool |-> [tool EXCEPT !.heap = heap1],
         cl |-> IF cl.idx < Len(heap1[cl.arr])
                THEN [cl EXCEPT !.idx = @ + 1]
                ELSE [cl EXCEPT !.pc = "store", !.arr = 0, !.idx = 0]]

\* storeInVectorDatabase up to its await: the entries of the chunks of the
\* current array that have an embedding, sent to collection.add.
storeInVectorDatabase(tool, cl) ==
    IF ~isInitialized(tool.vectorDB)
    THEN [tool |-> tool, cl |-> [cl EXCEPT !.pc = "operation"]]
    ELSE LET embedded == SelectSeq(tool.heap[tool.codeChunks],
                             LAMBDA ch : ch.embedding # NoEmbedding)
             entries == [i \in 1..Len(embedded) |-> indexEntry(embedded[i])]
         IN  IF Len(entries) > 0
             THEN [tool |-> tool, cl |-> [cl EXCEPT !.pc = "storing", !.batch = entries]]
             ELSE [tool |-> tool, cl |-> [cl EXCEPT !.pc = "operation"]]

\* The answer of collection.add; a failure is caught and logged.
storeResponse(tool, cl, ok) ==
    [tool |-> IF ok
              THEN [tool EXCEPT !.collection = collectionAdd(@, cl.batch)]
              ELSE tool,
     cl |-> [cl EXCEPT !.pc = "operation", !.batch = <<>>]]

\* queryEmbeddingResponse that answers a failed request with no result.
queryEmbeddingResponseNoFallback(tool, cl, ok) ==
    IF ok
    THEN [tool |-> tool, cl |-> [cl EXCEPT !.pc = "query_collection"]]
    ELSE [tool |-> tool,
          cl |-> searchReturns(cl, [NoResult EXCEPT !.kind = "text",
                                                    !.backend = "lexical"])]

\* The answer to the request for the query embedding: on failure the
\* lexical search; else the query is sent to the collection.
queryEmbeddingResponse(tool, cl, ok) ==
    IF ok
    THEN [tool |-> tool, cl |-> [cl EXCEPT !.pc = "query_collection"]]
    ELSE [tool |-> tool,
          cl |-> searchReturns(cl, inMemoryResult(tool, searchInput(cl.input)))]

\* queryResponse that lets the failure of collection.query reach the caller.
queryResponseThrows(tool, cl, ok) ==
    IF ok
    THEN LET input == searchInput(cl.input)
             results == collectionQuery(tool.collection, embeddingOf(input.query),
                            input.maxResults, input.codeType)
             out == formatSearchResults(results, input.threshold)
         IN  [tool |-> tool,
              cl |-> searchReturns(cl, [NoResult EXCEPT !.kind = "text",
                                                        !.backend = out.backend,
                                                        !.blocks = out.blocks])]
    ELSE [tool |-> tool, cl |-> Done(cl, [NoResult EXCEPT !.kind = "throw"])]

\* The answer of collection.query: formatted, or on failure the lexical search.
queryResponse(tool, cl, ok) ==
    IF ok
    THEN LET input == searchInput(cl.input)
             results == collectionQuery(tool.collection, embeddingOf(input.query),
                            input.maxResults, input.codeType)
             out == formatSearchResults(results, input.threshold)
         IN  [tool |-> tool,
              cl |-> searchReturns(cl, [NoResult EXCEPT !.kind = "text",
                                                        !.backend = out.backend,
                                                        !.blocks = out.blocks])]
    ELSE [tool |-> tool,
          cl |-> searchReturns(cl, inMemoryResult(tool, searchInput(cl.input)))]

(***************************************************************************)
(* Actions: one per stretch of code between two awaits.                    *)
(***************************************************************************)
\* The calls other than c.
Others(c) == [k \in Calls \ {c} |-> calls[k]]

\* The step of call c that leads to out.tool and out.cl. Arrays that no
\* reference holds any more are dropped from the heap.
Step(c, out) ==
    LET calls1 == [calls EXCEPT ![c] = out.cl]
        live == {out.tool.codeChunks}
                  \cup {calls1[k].arr : k \in {j \in Calls : calls1[j].pc = "embedding"}}
    IN  /\ calls' = calls1
        /\ chromaClient' = out.tool.chromaClient
        /\ vectorDB' = out.tool.vectorDB
        /\ heap' = [a \in live |-> out.tool.heap[a]]
        /\ codeChunks' = out.tool.codeChunks
        /\ astNodes' = out.tool.astNodes
        /\ currentPath' = out.tool.currentPath
        /\ collection' = out.tool.collection
        /\ UNCHANGED <<apiKey, overlap, walks, memVars, codebaseVars>>

\* Where a call resumes as a promise job: after an await of code that did no
\* input or output. The answer of a network request is delivered by the event
\* loop, which runs only when no promise job is left.
PromiseJobs == {"initialized", "parse", "embed", "store", "operation"}
NoPromiseJob == \A k \in Calls : calls[k].pc \notin PromiseJobs

\* initializeVectorDatabase that does not keep the client it created.
initializeVectorDatabaseNoClient(tool, cl) ==
    [tool |-> tool, cl |-> [cl EXCEPT !.pc = "connecting"]]

\* initializeVectorDatabase up to its await: the client is created and
\* assigned, then getOrCreateCollection is awaited.
initializeVectorDatabase(tool, cl) ==
    [tool |-> [tool EXCEPT !.chromaClient = TRUE],
     cl |-> [cl EXCEPT !.pc = "connecting"]]

\* The answer of getOrCreateCollection: this.vectorDB is set either way.
connectResponse(tool, cl, ok) ==
    [tool |-> [tool EXCEPT !.vectorDB = IF ok THEN "connected" ELSE "unavailable"],
     cl |-> [cl EXCEPT !.pc = "initialized"]]

\* A call of _run, up to its first await.
Start(c) ==
    /\ calls[c].pc = "idle"
    /\ \A k \in Calls : k < c => calls[k].pc # "idle"
    /\ overlap \/ \A k \in Calls : calls[k].pc = "idle"
    /\ started < MaxCalls
    /\ started' = started + 1
    /\ UNCHANGED failures
    /\ \E input \in (IF overlap THEN OverlapInputs
                     ELSE IF walks THEN WalkInputs ELSE Inputs) :
         LET cl == [IdleCall EXCEPT
                      !.input = input,
                      !.old = [path |-> currentPath,
                               ids |-> {heap[codeChunks][i].id :
                                          i \in 1..Len(heap[codeChunks])}]] IN
         IF ~chromaClient
         THEN Step(c, initializeVectorDatabase(Tool, cl))
         ELSE Step(c, dispatch(Tool, cl, Others(c)))

ConnectResponse(c) ==
    /\ calls[c].pc = "connecting"
    /\ NoPromiseJob
    /\ \E ok \in BOOLEAN : Step(c, connectResponse(Tool, calls[c], ok))
    /\ UNCHANGED <<started, failures>>

AfterInitialize(c) ==
    /\ calls[c].pc = "initialized"
    /\ Step(c, dispatch(Tool, calls[c], Others(c)))
    /\ UNCHANGED <<started, failures>>

ParseNextFile(c) ==
    /\ calls[c].pc = "parse"
    /\ Step(c, parseNextFile(Tool, calls[c]))
    /\ UNCHANGED <<started, failures>>

GenerateEmbeddings(c) ==
    /\ calls[c].pc = "embed"
    /\ Step(c, generateEmbeddings(Tool, calls[c]))
    /\ UNCHANGED <<started, failures>>

\* The failures of embedding requests are explored for the caller that waits
\* for each call, at most MaxEmbedFailures of them.
EmbeddingResponse(c) ==
    /\ calls[c].pc = "embedding"
    /\ NoPromiseJob
    /\ \E ok \in {b \in BOOLEAN : ~b => (~overlap /\ failures < MaxEmbedFailures)} :
         /\ Step(c, embeddingResponse(Tool, calls[c], ok))
         /\ failures' = IF ok THEN failures ELSE failures + 1
    /\ UNCHANGED started

StoreInVectorDatabase(c) ==
    /\ calls[c].pc = "store"
    /\ Step(c, storeInVectorDatabase(Tool, calls[c]))
    /\ UNCHANGED <<started, failures>>

StoreResponse(c) ==
    /\ calls[c].pc = "storing"
    /\ NoPromiseJob
    /\ \E ok \in BOOLEAN : Step(c, storeResponse(Tool, calls[c], ok))
    /\ UNCHANGED <<started, failures>>

RunOperation(c) ==
    /\ calls[c].pc = "operation"
    /\ Step(c, runOperation(Tool, calls[c]))
    /\ UNCHANGED <<started, failures>>

\* Without an API key the embedding service refuses the request.
QueryEmbeddingResponse(c) ==
    /\ calls[c].pc = "query_embedding"
    /\ NoPromiseJob
    /\ \E ok \in {b \in BOOLEAN : b => apiKey} :
         Step(c, queryEmbeddingResponse(Tool, calls[c], ok))
    /\ UNCHANGED <<started, failures>>

QueryResponse(c) ==
    /\ calls[c].pc = "query_collection"
    /\ NoPromiseJob
    /\ \E ok \in BOOLEAN : Step(c, queryResponse(Tool, calls[c], ok))
    /\ UNCHANGED <<started, failures>>

ExplainResponse(c) ==
    /\ calls[c].pc = "explaining"
    /\ NoPromiseJob
    /\ \E ok \in BOOLEAN : Step(c, explainResponse(Tool, calls[c], ok))
    /\ UNCHANGED <<started, failures>>

\* The caller takes the result.
Return(c) ==
    /\ calls[c].pc = "done"
    /\ Step(c, [tool |-> Tool, cl |-> IdleCall])
    /\ UNCHANGED <<started, failures>>

AnalyzerInit ==
    /\ chromaClient = FALSE
    /\ vectorDB = "null"
    /\ heap = [a \in {0} |-> <<>>]
    /\ codeChunks = 0
    /\ astNodes = <<>>
    /\ currentPath = NoPath
    /\ collection = <<>>
    /\ apiKey \in BOOLEAN
    /\ overlap \in BOOLEAN
    /\ walks \in {b \in BOOLEAN : b => ~overlap}
    /\ calls = [c \in Calls |-> IdleCall]
    /\ started = 0
    /\ failures = 0

Init == AnalyzerInit /\ MemoryParked /\ CodebaseParked

Next ==
    \E c \in Calls :
        \/ Start(c)
        \/ ConnectResponse(c)
        \/ AfterInitialize(c)
        \/ ParseNextFile(c)
        \/ GenerateEmbeddings(c)
        \/ EmbeddingResponse(c)
        \/ StoreInVectorDatabase(c)
        \/ StoreResponse(c)
        \/ RunOperation(c)
        \/ QueryEmbeddingResponse(c)
        \/ QueryResponse(c)
        \/ ExplainResponse(c)
        \/ Return(c)

Spec == Init /\ [][Next]_vars

(***************************************************************************)
(* The session memory (class SessionMemory).                               *)
(***************************************************************************)
\* Largest maxEntries a memory is constructed with, next to the default,
\* and the number of calls of addEntry and clear() that are followed.
MaxMemory == 2
MaxMemOps == 4

Roles == {"user", "assistant"}
Contents == { <<"h", "i">>, <<"o", "k">> }

\* addEntry that evicts the entry it has just pushed.
addEntryEvictsNewest(mem, role, content, now) ==
    LET entry == [timestamp |-> now, role |-> role, content |-> content]
        pushed == Append(mem.entries, entry)
    IN  [mem EXCEPT !.entries = IF Len(pushed) > mem.maxEntries
                                THEN SubSeq(pushed, 1, Len(pushed) - 1)
                                ELSE pushed]

\* addEntry: push, then one shift() when the length exceeds maxEntries.
addEntry(mem, role, content, now) ==
    LET entry == [timestamp |-> now, role |-> role, content |-> content]
        pushed == Append(mem.entries, entry)
    IN  [mem EXCEPT !.entries = IF Len(pushed) > mem.maxEntries
                                THEN Tail(pushed)
                                ELSE pushed]

\* getHistory: a copy of the entries.
getHistory(mem) == mem.entries

\* getLastEntries: entries.slice(-count); slice(-0) is slice(0).
getLastEntries(mem, count) ==
    IF count = 0 THEN mem.entries
    ELSE SubSeq(mem.entries, Max(1, Len(mem.entries) - count + 1), Len(mem.entries))

\* clear().
clear(mem) == [mem EXCEPT !.entries = <<>>]

\* A call of addEntry; the clock may have advanced since the last one.
AddEntry ==
    /\ memOps < MaxMemOps
    /\ \E role \in Roles, content \in Contents, now \in {clock, clock + 1} :
         /\ memory' = addEntry(memory, role, content, now)
         /\ history' = Append(history, [timestamp |-> now, role |-> role,
                                         content |-> content])
         /\ clock' = now
    /\ memOps' = memOps + 1
    /\ UNCHANGED <<analyzerVars, codebaseVars>>

Clear ==
    /\ memOps < MaxMemOps
    /\ memory' = clear(memory)
    /\ history' = <<>>
    /\ memOps' = memOps + 1
    /\ UNCHANGED <<clock, analyzerVars, codebaseVars>>

\* A memory as constructed, with the default or a small maxEntries; the
\* analyzer is new and is not called.
MemoryInit ==
    /\ AnalyzerInit /\ ~apiKey /\ ~overlap /\ ~walks
    /\ \E maxEntries \in (0..MaxMemory) \cup {DefaultMaxEntries} :
         memory = SessionMemory(maxEntries)
    /\ history = <<>>
    /\ clock = 0
    /\ memOps = 0
    /\ CodebaseParked

MemoryNext == AddEntry \/ Clear

MemorySpec == MemoryInit /\ [][MemoryNext]_vars

(***************************************************************************)
(* The text-based codebase analyzer (class CodebaseAnalyzer), called by a  *)
(* caller that awaits every call of _run before it makes the next.         *)
(***************************************************************************)
\* Directory names scanDirectory does not descend into.
scanSkipDirs ==
    { <<"n", "o", "d", "e", "_", "m", "o", "d", "u", "l", "e", "s">>,
      <<".", "g", "i", "t">>, <<"d", "i", "s", "t">>,
      <<"b", "u", "i", "l", "d">>, <<".", "n", "e", "x", "t">>,
      <<"c", "o", "v", "e", "r", "a", "g", "e">>,
      <<".", "n", "y", "c", "_", "o", "u", "t", "p", "u", "t">> }

\* File extensions scanDirectory does not read.
skipExtensions ==
    { <<".", "p", "n", "g">>, <<".", "j", "p", "g">>, <<".", "j", "p", "e", "g">>,
      <<".", "g", "i", "f">>, <<".", "i", "c", "o">>, <<".", "s", "v", "g">>,
      <<".", "p", "d", "f">>, <<".", "z", "i", "p">>, <<".", "t", "a", "r">>,
      <<".", "g", "z">> }

\* An optional list of extensions that is not given.
NoExtensions == [given |-> FALSE, exts |-> {}]
Extensions(exts) == [given |-> TRUE, exts |-> exts]

\* getLanguageFromExtension, on the extensions of the file system.
getLanguageFromExtension(ext) ==
    CASE ext = <<".", "j", "s">> -> "JavaScript"
      [] ext = <<".", "t", "s">> -> "TypeScript"
      [] ext = <<".", "m", "d">> -> "Markdown"
      [] OTHER -> "Unknown"

\* The FileInfo of a file that was read; files of more than 1 MB are skipped.
fileInfo(fullPath, root, ext, content) ==
    IF Len(content) > 1024 * 1024 THEN <<>>
    ELSE << [path |-> relative(root, fullPath),
             content |-> content,
             lines |-> Len(splitLines(content)),
             extension |-> ext,
             size |-> Len(content)] >>

\* What scanDirectory does with one file of extension ext: the FileInfo it
\* pushes, if any.
scanFile(fullPath, root, ext, includeExtensions, excludeExtensions) ==
    IF includeExtensions.given /\ ext \notin includeExtensions.exts THEN <<>>
    ELSE IF excludeExtensions.given /\ ext \in excludeExtensions.exts THEN <<>>
    ELSE IF ext \in skipExtensions THEN <<>>
    ELSE IF readFileThrows(fullPath) THEN <<>>
    ELSE fileInfo(fullPath, root, ext, readFileSync(fullPath))

\* scanDirectory, continuing a scan that has pushed scan.files: the files
\* pushed to the index, in order; threw: readdirSync threw for a directory,
\* which ends the scan.
RECURSIVE scanDirectory(_, _, _, _, _, _, _)
RECURSIVE scanEntries(_, _, _, _, _, _, _, _)
scanEntry(fullPath, entry, currentDepth, maxDepth, includeExtensions, excludeExtensions, root, scan) ==
    IF entry.isDir
    THEN IF entry.name \in scanSkipDirs THEN scan
         ELSE scanDirectory(fullPath, currentDepth + 1, maxDepth,
                            includeExtensions, excludeExtensions, root, scan)
    ELSE IF entry.isFile
    THEN [scan EXCEPT !.files = @ \o scanFile(fullPath, root, extname(fullPath),
                                              includeExtensions,
                                              excludeExtensions)]
    ELSE scan

scanEntries(dirPath, i, currentDepth, maxDepth, includeExtensions, excludeExtensions, root, scan) ==
    IF scan.threw \/ i > Len(readdirSync(dirPath)) THEN scan
    ELSE scanEntries(dirPath, i + 1, currentDepth, maxDepth, includeExtensions,
                     excludeExtensions, root,
                     scanEntry(pathJoin(dirPath, readdirSync(dirPath)[i].name),
                               readdirSync(dirPath)[i], currentDepth, maxDepth,
                               includeExtensions, excludeExtensions, root, scan))

scanDirectory(dirPath, currentDepth, maxDepth, includeExtensions, excludeExtensions, root, scan) ==
    IF currentDepth > maxDepth THEN scan
    ELSE IF readdirThrows(dirPath) THEN [scan EXCEPT !.threw = TRUE]
    ELSE scanEntries(dirPath, 1, currentDepth, maxDepth, includeExtensions,
                     excludeExtensions, root, scan)

\* this.codebaseIndex.languages after the files were pushed: the count of
\* every language, in the order the languages were first met.
RECURSIVE countLanguages(_)
countLanguages(files) ==
    IF Len(files) = 0 THEN <<>>
    ELSE LET front == countLanguages(SubSeq(files, 1, Len(files) - 1))
             language == getLanguageFromExtension(files[Len(files)].extension)
         IN  IF \E i \in 1..Len(front) : front[i].language = language
             THEN [i \in 1..Len(front) |->
                     IF front[i].language = language
                     THEN [front[i] EXCEPT !.count = @ + 1] ELSE front[i]]
             ELSE Append(front, [language |-> language, count |-> 1])

RECURSIVE sumLines(_)
sumLines(files) ==
    IF Len(files) = 0 THEN 0 ELSE files[1].lines + sumLines(Tail(files))

\* The index analyzeCodebase leaves for the files scanDirectory pushed.
indexOf(files) ==
    [isNull |-> FALSE, files |-> files, totalFiles |-> Len(files),
     totalLines |-> sumLines(files), languages |-> countLanguages(files)]

\* The fields analyzeCodebase leaves when scanDirectory has ended.
scanned(targetPath, scan) ==
    [index |-> indexOf(scan.files), path |-> targetPath,
     assigned |-> TRUE, threw |-> scan.threw]

\* analyzeCodebase: the fields after it, whether it assigned them and
\* whether it threw. A path that does not exist or is no directory throws
\* before anything is assigned; a directory that cannot be read throws
\* during the scan.
analyzeCodebase(tool, targetPath, includeExtensions, excludeExtensions, maxDepth) ==
    IF ~existsSync(targetPath) \/ ~isDirectory(targetPath)
    THEN [tool EXCEPT !.threw = TRUE]
    ELSE scanned(targetPath,
                 scanDirectory(targetPath, 0, maxDepth, includeExtensions,
                               excludeExtensions, targetPath,
                               [files |-> <<>>, threw |-> FALSE]))

(***************************************************************************)
(* Regular expressions: a pattern is a list of alternatives, an            *)
(* alternative a list of elements: a literal text, \s* or \s+, .* or one   *)
(* character of a class. Every pattern has the flags g and i.              *)
(***************************************************************************)
Lit(text) == [t |-> "lit", s |-> text, min |-> 0, set |-> {}]
Ws(min) == [t |-> "ws", s |-> <<>>, min |-> min, set |-> {}]
AnyText == [t |-> "any", s |-> <<>>, min |-> 0, set |-> {}]
Cls(set) == [t |-> "cls", s |-> <<>>, min |-> 0, set |-> set]

\* The offsets at which a match of the alternative that starts at offset i
\* of the line can end.
RECURSIVE matchEnds(_, _, _)
matchEnds(alt, line, i) ==
    IF Len(alt) = 0 THEN {i}
    ELSE LET el == Head(alt)
             nexts ==
                 CASE el.t = "lit" ->
                        IF /\ i + Len(el.s) <= Len(line)
                           /\ toLowerCase(SubSeq(line, i + 1, i + Len(el.s)))
                                = toLowerCase(el.s)
                        THEN {i + Len(el.s)} ELSE {}
                   [] el.t = "ws" ->
                        {j \in (i + el.min)..Len(line) :
                           \A k \in (i + 1)..j : IsSpace(line[k])}
                   [] el.t = "any" -> i..Len(line)
                   [] OTHER ->
                        IF i < Len(line) /\ line[i + 1] \in el.set
                        THEN {i + 1} ELSE {}
         IN  UNION {matchEnds(Tail(alt), line, j) : j \in nexts}

\* The least and the greatest element of a set of numbers.
Least(S) == CHOOSE x \in S : \A y \in S : x <= y
Greatest(S) == CHOOSE x \in S : \A y \in S : y <= x

\* The end of the match at offset i: of the first alternative, from the
\* a-th on, that matches there, with every quantifier as greedy as the rest
\* of the alternative allows.
RECURSIVE matchEnd(_, _, _, _)
matchEnd(pattern, line, i, a) ==
    IF matchEnds(pattern[a], line, i) # {}
    THEN Greatest(matchEnds(pattern[a], line, i))
    ELSE matchEnd(pattern, line, i, a + 1)

\* The offsets from lastIndex on at which the pattern matches.
matchStarts(pattern, line, lastIndex) ==
    {i \in lastIndex..Len(line) :
       \E a \in 1..Len(pattern) : matchEnds(pattern[a], line, i) # {}}

\* RegExp.prototype.test of a pattern with the g flag: the search starts at
\* lastIndex and takes the leftmost match; a match leaves lastIndex at its
\* end, a failure at 0.
regexTest(pattern, line, lastIndex) ==
    IF matchStarts(pattern, line, lastIndex) = {}
    THEN [found |-> FALSE, lastIndex |-> 0]
    ELSE [found |-> TRUE,
          lastIndex |-> matchEnd(pattern, line,
                                 Least(matchStarts(pattern, line, lastIndex)), 1)]

\* new RegExp(query, 'gi') for a query of letters.
searchRegex(query) == << <<Lit(query)>> >>

\* The pattern of findFunction.
functionRegex(functionName) ==
    << <<Lit(<<"f", "u", "n", "c", "t", "i", "o", "n">>), Ws(1), Lit(functionName),
         Ws(0), Lit(<<"(">>)>>,
       <<Lit(functionName), Ws(0), Cls({":", "="}), Ws(0),
         Lit(<<"f", "u", "n", "c", "t", "i", "o", "n">>)>>,
       <<Lit(functionName), Ws(0), Lit(<<"(">>), AnyText, Lit(<<")">>), Ws(0),
         Lit(<<"=", ">">>)>>,
       <<Lit(<<"d", "e", "f">>), Ws(1), Lit(functionName), Ws(0), Lit(<<"(">>)>>,
       <<Lit(functionName), Ws(0), Lit(<<"(">>), AnyText, Lit(<<")">>), Ws(0),
         Lit(<<"{">>)>> >>

\* The pattern of findClass.
classRegex(className) ==
    << <<Lit(<<"c", "l", "a", "s", "s">>), Ws(1), Lit(className), Ws(0),
         Cls({"{", "(", ":"})>>,
       <<Lit(<<"i", "n", "t", "e", "r", "f", "a", "c", "e">>), Ws(1),
         Lit(className), Ws(0), Cls({"{"})>>,
       <<Lit(<<"t", "y", "p", "e">>), Ws(1), Lit(className), Ws(0), Lit(<<"=">>)>> >>

\* String.prototype.trim.
trim(line) ==
    LET solid == {i \in 1..Len(line) : ~IsSpace(line[i])}
    IN  IF solid = {} THEN <<>>
        ELSE SubSeq(line, CHOOSE i \in solid : \A k \in solid : i <= k,
                          CHOOSE i \in solid : \A k \in solid : k <= i)

\* One step of lines.forEach(...): the k-th line is tested with the
\* pattern object as the lines before have left it.
testLine(pattern, file, lines, k, acc) ==
    LET t == regexTest(pattern, lines[k], acc.lastIndex)
    IN  [matches |-> IF t.found
                     THEN Append(acc.matches, [file |-> file, line |-> k,
                                               content |-> trim(lines[k])])
                     ELSE acc.matches,
         lastIndex |-> t.lastIndex]

\* lines.forEach(...) with one pattern object: the matches pushed and the
\* lastIndex the pattern is left with.
RECURSIVE testLines(_, _, _, _, _)
testLines(pattern, file, lines, k, acc) ==
    IF k > Len(lines) THEN acc
    ELSE testLines(pattern, file, lines, k + 1,
                   testLine(pattern, file, lines, k, acc))

\* One file of the loop over the files: its matches are a list of their own,
\* the pattern object goes on to the next file as it is.
testFile(pattern, file, acc) ==
    LET here == testLines(pattern, file.path, splitLines(file.content), 1,
                          [matches |-> <<>>, lastIndex |-> acc.lastIndex])
    IN  [groups |-> Append(acc.groups, here.matches),
         lastIndex |-> here.lastIndex]

\* The loop over the files of the index with one new pattern object: the
\* matches of every file, in order.
RECURSIVE testFilesFrom(_, _, _, _)
testFilesFrom(pattern, files, f, acc) ==
    IF f > Len(files) THEN acc.groups
    ELSE testFilesFrom(pattern, files, f + 1, testFile(pattern, files[f], acc))

testFiles(pattern, files) ==
    testFilesFrom(pattern, files, 1, [groups |-> <<>>, lastIndex |-> 0])

\* The limits of searchCodebase: matches shown of one file, files shown.
MaxMatchesPerFile == 5
MaxResultFiles == 10

RECURSIVE flatten(_)
flatten(groups) ==
    IF Len(groups) = 0 THEN <<>> ELSE Head(groups) \o flatten(Tail(groups))

Text(operation, text) ==
    [NoOutput EXCEPT !.operation = operation, !.kind = "text", !.text = text]

\* The results of searchCodebase: the files with a match, each with its
\* first matches.
searchResults(perFile) ==
    [i \in 1..Len(perFile) |-> slice0(perFile[i], MaxMatchesPerFile)]

\* The text searchCodebase makes of its results: the first files.
formatSearch(query, results) ==
    IF Len(results) = 0
    THEN [Text("search", "no matches") EXCEPT !.query = query]
    ELSE [Text("search", "results") EXCEPT
            !.query = query,
            !.results = flatten(slice0(results, MaxResultFiles))]

\* searchCodebase: the lines shown, file by file.
searchCodebase(index, query) ==
    IF index.isNull THEN Text("search", "no codebase")
    ELSE formatSearch(query,
             searchResults(SelectSeq(testFiles(searchRegex(query), index.files),
                                     LAMBDA matches : Len(matches) > 0)))

\* The text findFunction and findClass make of their results.
formatFound(operation, name, results) ==
    [Text(operation, IF Len(results) = 0 THEN "no matches" ELSE "results")
       EXCEPT !.query = name, !.results = results]

\* findFunction: every line the pattern object finds.
findFunction(index, functionName) ==
    IF index.isNull THEN Text("find_function", "no codebase")
    ELSE formatFound("find_function", functionName,
                     flatten(testFiles(functionRegex(functionName), index.files)))

\* findClass: every line the pattern object finds.
findClass(index, className) ==
    IF index.isNull THEN Text("find_class", "no codebase")
    ELSE formatFound("find_class", className,
                     flatten(testFiles(classRegex(className), index.files)))

\* Object.entries(languages).sort(([,a], [,b]) => b - a)[0]: the first
\* language with the highest count; undefined for no language at all.
hasMainLanguage(index) == Len(index.languages) > 0
mainLanguage(index) ==
    LET languages == index.languages
        i == CHOOSE k \in 1..Len(languages) :
                 /\ \A m \in 1..Len(languages) : languages[m].count <= languages[k].count
                 /\ \A m \in 1..(k - 1) : languages[m].count < languages[k].count
    IN  languages[i].language

Throw(operation, thrownBy) ==
    [NoOutput EXCEPT !.operation = operation, !.kind = "throw",
                     !.thrownBy = thrownBy]

\* getCodebaseSummary: mainLanguage[0] is a TypeError when mainLanguage is
\* undefined.
getCodebaseSummary(index) ==
    IF index.isNull THEN Text("summary", "no codebase")
    ELSE IF ~hasMainLanguage(index) THEN Throw("summary", "getCodebaseSummary")
    ELSE [Text("summary", "summary") EXCEPT !.primary = mainLanguage(index)]

\* The words that make explainCodebase name the primary technology.
TechnologyWords ==
    { <<"t", "e", "c", "h", "n", "o", "l", "o", "g", "y">>,
      <<"l", "a", "n", "g", "u", "a", "g", "e">>,
      <<"s", "t", "a", "c", "k">> }

\* explainCodebase: the branch for technology questions reads
\* mainLanguage[0]; the other branches only format numbers.
explainCodebase(index, question) ==
    IF index.isNull THEN Text("explain", "no codebase")
    ELSE IF \E word \in TechnologyWords : includes(toLowerCase(question), word)
    THEN IF ~hasMainLanguage(index) THEN Throw("explain", "explainCodebase")
         ELSE [Text("explain", "explanation") EXCEPT
                 !.query = question, !.primary = mainLanguage(index)]
    ELSE [Text("explain", "explanation") EXCEPT !.query = question]

\* The operations that only format the index: structure, stats, files,
\* dependencies, code_quality, functionality and call_graph. On an index
\* without files their divisions give NaN, which is formatted as text.
FormatOperations ==
    {"structure", "stats", "files", "dependencies", "code_quality",
     "functionality", "call_graph"}
formatIndex(index, operation) ==
    IF index.isNull THEN Text(operation, "no codebase")
    ELSE Text(operation, operation)

\* maxDepth = 10 when the input has none.
DefaultMaxDepth == 10

\* The input of a call of _run; an absent text is the empty text.
CodebaseInput(operation, path, query) ==
    [operation |-> operation, path |-> path, query |-> query,
     functionName |-> <<>>, className |-> <<>>,
     includeExtensions |-> NoExtensions, excludeExtensions |-> NoExtensions,
     maxDepth |-> DefaultMaxDepth]

\* The switch of _run on the index.
codebaseOperation(index, input) ==
    CASE input.operation = "analyze" ->
           IF input.path = NoPath THEN Text("analyze", "error")
           ELSE Text("analyze", "analysis")
      [] input.operation = "search" ->
           IF input.query = <<>> THEN Text("search", "error")
           ELSE searchCodebase(index, input.query)
      [] input.operation = "explain" ->
           IF input.query = <<>> THEN Text("explain", "error")
           ELSE explainCodebase(index, input.query)
      [] input.operation = "find_function" ->
           IF input.functionName = <<>> THEN Text("find_function", "error")
           ELSE findFunction(index, input.functionName)
      [] input.operation = "find_class" ->
           IF input.className = <<>> THEN Text("find_class", "error")
           ELSE findClass(index, input.className)
      [] input.operation = "summary" -> getCodebaseSummary(index)
      [] OTHER -> formatIndex(index, input.operation)

\* The end of _run: what analyzeCodebase threw is thrown on, else the
\* operation is performed on the index.
operate(after, input) ==
    [index |-> after.index,
     path |-> after.path,
     assigned |-> after.assigned,
     output |-> IF after.threw
                THEN Throw(input.operation, "analyzeCodebase")
                ELSE codebaseOperation(after.index, input)]

\* _run: analyzeCodebase when a path is given and the operation is analyze
\* or the path is not the current one, then the operation.
run(tool, input) ==
    IF /\ input.path # NoPath
       /\ (input.operation = "analyze" \/ tool.path # input.path)
    THEN operate(analyzeCodebase(tool,
                                 input.path, input.includeExtensions,
                                 input.excludeExtensions, input.maxDepth),
                 input)
    ELSE operate(tool, input)

\* The analyzer as a call of _run finds it, and as the call leaves it.
CodebaseTool ==
    [index |-> codebaseIndex, path |-> codebasePath, assigned |-> FALSE,
     threw |-> FALSE]
Ran(r) ==
    /\ codebaseIndex' = r.index
    /\ codebasePath' = r.path
    /\ analyzedOk' = IF r.assigned
                     THEN r.output.operation = "analyze" /\ r.output.kind = "text"
                     ELSE analyzedOk
    /\ output' = r.output

\* The directories and the texts the calls carry. Every directory is
\* analyzed; the other operations work on the index that is there, search
\* and summary also with a path of their own.
CodebasePaths == {NoPath, PathA, PathB, PathE, PathL, PathM, PathU, PathX}
Names == { <<"a", "d", "d">>, <<"A", "d", "d">>, <<"I">> }
Questions ==
    { <<"w", "h", "i", "c", "h", " ", "S", "t", "a", "c", "k", "?">>,
      <<"s", "i", "z", "e", "?">> }
ExtensionLists ==
    { <<NoExtensions, NoExtensions>>,
      <<Extensions({<<".", "t", "s">>}), NoExtensions>>,
      <<NoExtensions, Extensions({<<".", "t", "s">>})>>,
      <<Extensions({}), NoExtensions>> }

CodebaseAnalyze ==
    /\ \E path \in CodebasePaths, lists \in ExtensionLists :
           Ran(run(CodebaseTool, [CodebaseInput("analyze", path, <<>>) EXCEPT
                                       !.includeExtensions = lists[1],
                                       !.excludeExtensions = lists[2]]))
    /\ UNCHANGED <<analyzerVars, memVars>>

CodebaseSearch ==
    /\ \E path \in {NoPath, PathA, PathX}, query \in Names \cup {<<>>} :
           Ran(run(CodebaseTool, CodebaseInput("search", path, query)))
    /\ UNCHANGED <<analyzerVars, memVars>>

CodebaseFindFunction ==
    /\ \E name \in Names \cup {<<>>} :
           Ran(run(CodebaseTool, [CodebaseInput("find_function", NoPath, <<>>) EXCEPT
                                       !.functionName = name]))
    /\ UNCHANGED <<analyzerVars, memVars>>

CodebaseFindClass ==
    /\ \E name \in Names \cup {<<>>} :
           Ran(run(CodebaseTool, [CodebaseInput("find_class", NoPath, <<>>) EXCEPT
                                       !.className = name]))
    /\ UNCHANGED <<analyzerVars, memVars>>

CodebaseExplain ==
    /\ \E question \in Questions \cup {<<>>} :
           Ran(run(CodebaseTool, CodebaseInput("explain", NoPath, question)))
    /\ UNCHANGED <<analyzerVars, memVars>>

CodebaseSummary ==
    /\ \E path \in {NoPath, PathE} :
           Ran(run(CodebaseTool, CodebaseInput("summary", path, <<>>)))
    /\ UNCHANGED <<analyzerVars, memVars>>

CodebaseFormat ==
    /\ \E operation \in FormatOperations :
           Ran(run(CodebaseTool, CodebaseInput(operation, NoPath, <<>>)))
    /\ UNCHANGED <<analyzerVars, memVars>>

\* A new codebase analyzer; the other objects are new and are not called.
CodebaseInit ==
    /\ AnalyzerInit /\ ~apiKey /\ ~overlap /\ ~walks
    /\ MemoryParked
    /\ CodebaseParked

CodebaseNext ==
    \/ CodebaseAnalyze
    \/ CodebaseSearch
    \/ CodebaseFindFunction
    \/ CodebaseFindClass
    \/ CodebaseExplain
    \/ CodebaseSummary
    \/ CodebaseFormat

CodebaseSpec == CodebaseInit /\ [][CodebaseNext]_vars

(***************************************************************************)
(* Properties.                                                             *)
(***************************************************************************)
\* Call c has returned the text of a search.
SearchDone(c) ==
    /\ calls[c].pc = "done"
    /\ calls[c].input.operation = "semantic_search"
    /\ calls[c].result.kind = "text"

\* Call c is inside analyzeCodebaseAST.
Building(c) == calls[c].pc \in {"parse", "embed", "embedding", "store", "storing"}

\* The chunk set a build of path p produces when nothing else runs.
RECURSIVE chunksOfFiles(_, _)
chunksOfFiles(files, p) ==
    IF Len(files) = 0 THEN <<>>
    ELSE parseFileAST(files[1], p).chunks \o chunksOfFiles(Tail(files), p)

CompleteGeneration(p) == chunksOfFiles(parseDirectoryAST(p, 0), p)

\* The chunk sets a query may see: the empty one the tool starts with, and
\* the output of a build of a directory (for /L, what the walk produced
\* before it ended).
CompleteGenerations ==
    {<<>>} \cup {CompleteGeneration(p) : p \in {PathA, PathB, PathC, PathL}}

ChunkIds(chunks) == [i \in 1..Len(chunks) |-> chunks[i].id]

\* Every chunk extraction can produce, under either current path.
AllChunks ==
    UNION { {parseFileAST(f, p).chunks[i] : i \in 1..Len(parseFileAST(f, p).chunks)} :
              f \in Files, p \in {PathA, PathB, PathC, PathL} }

\* The chunk a result block was printed for.
IsBlockOf(block, chunk) ==
    /\ block.name = chunk.name
    /\ block.type = chunk.type
    /\ block.file = chunk.file
    /\ block.line = chunk.line

\* The lower-cased, whitespace-separated terms of a query, and how many of
\* them occur in the lower-cased name, content and context of a chunk.
Terms(query) == splitWhitespace(toLowerCase(query))
TermsFound(query, chunk) ==
    Cardinality({i \in 1..Len(Terms(query)) :
        includes(toLowerCase(chunk.name \o <<" ">> \o chunk.content \o <<" ">>
                               \o chunk.context), Terms(query)[i])})

\* C1: no block of a search result has a similarity below the threshold of
\* the call, or a kind other than the kind filter of the call when one is set.
C1_ThresholdAndKind ==
    \A c \in Calls : SearchDone(c) =>
        \A i \in 1..Len(calls[c].result.blocks) :
            LET b == calls[c].result.blocks[i] IN
            /\ b.similarity.n * 100 >= calls[c].input.threshold * b.similarity.d
            /\ calls[c].input.codeType # "all" => b.type = calls[c].input.codeType

\* A vector search for classes, threshold 0.7, that returned a block while
\* the collection holds entries it had to leave out.
C1_Witness ==
    \E c \in Calls :
        /\ SearchDone(c)
        /\ calls[c].result.backend = "vector"
        /\ calls[c].input.codeType = "class"
        /\ calls[c].input.threshold = 70
        /\ Len(calls[c].result.blocks) >= 1
        /\ Len(collection) > Len(calls[c].result.blocks)

\* C2: a lexical search returns what the search returns over a complete
\* generation: the empty chunk set of a new tool, or the whole output of a
\* build of one directory.
C2_QuerySeesCompleteGeneration ==
    \A c \in Calls : (SearchDone(c) /\ calls[c].result.backend = "lexical") =>
        \E g \in CompleteGenerations :
            calls[c].result.blocks =
                performInMemorySearch(g, calls[c].input.query, calls[c].input.threshold,
                    calls[c].input.maxResults, calls[c].input.codeType).blocks

\* C3: when no build is in flight, the chunk set is the output of exactly one
\* build: its ids are those of a complete generation.
C3_OneBuildOutput ==
    (\A c \in Calls : ~Building(c)) =>
        \E g \in CompleteGenerations : ChunkIds(heap[codeChunks]) = ChunkIds(g)

\* C4: after the builds of a caller that waits for every call, the ids of
\* the chunk set are pairwise distinct.
C4_UniqueIds ==
    (~overlap /\ \A c \in Calls : ~Building(c)) =>
        \A i, j \in 1..Len(heap[codeChunks]) :
            i # j => heap[codeChunks][i].id # heap[codeChunks][j].id

\* C5: once the connection has failed, it stays failed; no call connects
\* again, sends entries or a query to the collection, or asks for a query
\* embedding; and every search that returns was answered by the lexical
\* backend.
C5_PermanentFallback ==
    [][vectorDB = "unavailable" =>
         /\ vectorDB' = "unavailable"
         /\ chromaClient'
         /\ \A c \in Calls :
              /\ calls'[c].pc \notin {"connecting", "storing", "query_embedding",
                                      "query_collection"}
              /\ (calls'[c].pc = "done" /\ calls[c].pc # "done"
                    /\ calls'[c].input.operation = "semantic_search"
                    /\ calls'[c].result.kind = "text")
                 => calls'[c].result.backend = "lexical"]_vars

\* The connection failed in an earlier call, and a later call has searched
\* and found something.
C5_Witness ==
    /\ vectorDB = "unavailable"
    /\ ~overlap
    /\ started = 2
    /\ \E c \in Calls :
         /\ SearchDone(c)
         /\ calls[c].result.backend = "lexical"
         /\ Len(calls[c].result.blocks) >= 1

\* C6: a search that has gone to the embedding service or to the collection
\* ends with a text, never an exception: the answer of the collection, or
\* the lexical search over the current chunk set.
C6_FallbackOnFailure ==
    [][\A c \in Calls :
         (calls[c].pc \in {"query_embedding", "query_collection"}
            /\ calls[c].input.operation = "semantic_search"
            /\ calls'[c].pc # calls[c].pc)
         => \/ calls[c].pc = "query_embedding" /\ calls'[c].pc = "query_collection"
            \/ /\ calls'[c].pc = "done"
               /\ calls'[c].result.kind = "text"
               /\ \/ calls'[c].result.backend = "vector"
                  \/ /\ calls'[c].result.backend = "lexical"
                     /\ calls'[c].result.blocks =
                          performInMemorySearch(heap[codeChunks], calls[c].input.query,
                              calls[c].input.threshold, calls[c].input.maxResults,
                              calls[c].input.codeType).blocks]_vars

\* The vector store is connected, the caller waits for every call, and a
\* search came back from the lexical backend with a result: one of its two
\* requests failed.
C6_Witness ==
    /\ vectorDB = "connected"
    /\ ~overlap
    /\ \E c \in Calls :
         /\ SearchDone(c)
         /\ calls[c].result.backend = "lexical"
         /\ Len(calls[c].result.blocks) >= 1

\* C7: a lexical search with threshold 0 that has not used up its limit
\* returns, with a similarity above 0, every chunk of the kind asked for
\* that contains at least one term of the query.
C7_AnyTermIsCandidate ==
    \A c \in Calls :
        (/\ SearchDone(c)
         /\ ~overlap
         /\ calls[c].result.backend = "lexical"
         /\ calls[c].input.threshold = 0
         /\ Len(calls[c].result.blocks) < calls[c].input.maxResults)
        => \A k \in 1..Len(heap[codeChunks]) :
             LET chunk == heap[codeChunks][k] IN
             (/\ calls[c].input.codeType \in {"all", chunk.type}
              /\ TermsFound(calls[c].input.query, chunk) > 0)
             => \E i \in 1..Len(calls[c].result.blocks) :
                  /\ IsBlockOf(calls[c].result.blocks[i], chunk)
                  /\ calls[c].result.blocks[i].similarity.n > 0

\* C8: a search returns at most max_results blocks.
C8_AtMostMaxResults ==
    \A c \in Calls : SearchDone(c) =>
        Len(calls[c].result.blocks) <= calls[c].input.maxResults

\* A lexical search that returned max_results blocks although more chunks of
\* the chunk set contain the query.
C8_Witness ==
    \E c \in Calls :
        /\ SearchDone(c)
        /\ ~overlap
        /\ calls[c].result.backend = "lexical"
        /\ Len(calls[c].result.blocks) = calls[c].input.maxResults
        /\ Len(SelectSeq(heap[codeChunks], LAMBDA chunk :
               includes(toLowerCase(chunk.content), toLowerCase(calls[c].input.query))))
             > calls[c].input.maxResults

\* C9: the blocks of a lexical search are in non-increasing order of
\* similarity, no qualifying chunk left out has a higher similarity than a
\* chunk returned, and fewer than max_results blocks are returned only when
\* every qualifying chunk is returned. A chunk qualifies when it is of the
\* kind asked for, contains a term of the query, and its fraction of query
\* terms reaches the threshold.
C9_RankedThenTruncated ==
    \A c \in Calls :
        (SearchDone(c) /\ ~overlap /\ calls[c].result.backend = "lexical") =>
        LET blocks == calls[c].result.blocks
            input == calls[c].input
            qualifies(chunk) ==
                /\ input.codeType \in {"all", chunk.type}
                /\ TermsFound(input.query, chunk) > 0
                /\ TermsFound(input.query, chunk) * 100
                     >= input.threshold * Len(Terms(input.query))
            returned(chunk) == \E i \in 1..Len(blocks) : IsBlockOf(blocks[i], chunk)
        IN  /\ \A i, j \in 1..Len(blocks) :
                 i < j => blocks[i].similarity.n * blocks[j].similarity.d
                            >= blocks[j].similarity.n * blocks[i].similarity.d
            /\ \A k \in 1..Len(heap[codeChunks]) :
                 LET chunk == heap[codeChunks][k] IN
                 (qualifies(chunk) /\ ~returned(chunk)) =>
                    /\ Len(blocks) = input.maxResults
                    /\ \A i \in 1..Len(blocks) :
                         blocks[i].similarity.n * Len(Terms(input.query))
                           >= TermsFound(input.query, chunk) * blocks[i].similarity.d

\* C10: the similarity of every block of a lexical search is the number of
\* query terms found in the chunk divided by the number of query terms, and
\* the percentage shown is that fraction rounded to one decimal.
C10_TermFraction ==
    \A c \in Calls : (SearchDone(c) /\ calls[c].result.backend = "lexical") =>
        \A i \in 1..Len(calls[c].result.blocks) :
            LET b == calls[c].result.blocks[i]
                words == Len(Terms(calls[c].input.query))
            IN  /\ \E chunk \in AllChunks : IsBlockOf(b, chunk)
                /\ \A chunk \in AllChunks : IsBlockOf(b, chunk) =>
                     LET found == TermsFound(calls[c].input.query, chunk) IN
                     /\ b.similarity.n * words = found * b.similarity.d
                     /\ 2 * words * b.shown <= 2000 * found + words
                     /\ 2000 * found + words < 2 * words * (b.shown + 1)

\* A lexical search returned a chunk that contains the query in its context
\* only: the variable f for the query "class".
C10_Witness ==
    \E c \in Calls :
        /\ SearchDone(c)
        /\ calls[c].result.backend = "lexical"
        /\ calls[c].input.query = <<"c", "l", "a", "s", "s">>
        /\ \E i \in 1..Len(calls[c].result.blocks) :
             /\ calls[c].result.blocks[i].name = <<"f">>
             /\ calls[c].result.blocks[i].type = "variable"

\* A call has just returned an answer of the operation op.
Returns(c, op) ==
    /\ calls'[c].pc = "done"
    /\ calls[c].pc # "done"
    /\ calls'[c].input.operation = op

\* C11: without an API key, the summary of a completed index build reports
\* no embedding and the in-memory mode, whether or not the vector store is
\* connected.
C11_NoKeySummaryIsLexical ==
    \A c \in Calls :
        (/\ calls[c].pc = "done"
         /\ calls[c].input.operation = "analyze_ast"
         /\ calls[c].result.kind = "text"
         /\ ~apiKey)
        => /\ calls[c].result.summary.embedded = 0
           /\ calls[c].result.summary.status = "In-Memory Mode"

\* C12: without an API key, a search without a kind filter and with
\* max_results >= 1 whose query occurs verbatim in the content, name or
\* context of a chunk of the chunk set returns at least one block, whatever
\* the threshold and whether or not the vector store is connected.
C12_VerbatimQueryIsFound ==
    [][\A c \in Calls :
         (/\ Returns(c, "semantic_search")
          /\ calls'[c].result.kind = "text"
          /\ ~apiKey
          /\ calls'[c].input.codeType = "all"
          /\ calls'[c].input.maxResults >= 1
          /\ \E k \in 1..Len(heap'[codeChunks']) :
                LET chunk == heap'[codeChunks'][k] IN
                \/ includes(chunk.content, calls'[c].input.query)
                \/ includes(chunk.name, calls'[c].input.query)
                \/ includes(chunk.context, calls'[c].input.query))
         => Len(calls'[c].result.blocks) >= 1]_vars

\* Without an API key and with the vector store connected, a search with
\* threshold 1 has returned a block.
C12_Witness ==
    /\ ~apiKey
    /\ vectorDB = "connected"
    /\ \E c \in Calls :
         /\ SearchDone(c)
         /\ calls[c].input.threshold = 100
         /\ calls[c].input.codeType = "all"
         /\ Len(calls[c].result.blocks) >= 1

\* C13: a call that needs an index build of a path that does not exist or is
\* not a directory ends with an exception, and leaves the current path, the
\* AST nodes and the chunk set as they were.
C13_InvalidPathChangesNothing ==
    [][\A c \in Calls :
         (/\ calls'[c].pc = "done"
          /\ calls[c].pc # "done"
          /\ calls'[c].input.path # NoPath
          /\ ~(existsSync(calls'[c].input.path) /\ isDirectory(calls'[c].input.path)))
         => /\ calls'[c].result.kind = "throw"
            /\ currentPath' = currentPath
            /\ astNodes' = astNodes
            /\ codeChunks' = codeChunks
            /\ heap'[codeChunks'] = heap[codeChunks]]_vars

\* An index build of a file (not a directory) was refused while the chunk set
\* of an earlier build is in place.
C13_Witness ==
    /\ ~overlap
    /\ currentPath = PathA
    /\ Len(heap[codeChunks]) > 0
    /\ \E c \in Calls :
         /\ calls[c].pc = "done"
         /\ calls[c].input.operation = "analyze_ast"
         /\ calls[c].input.path = FileAdd
         /\ calls[c].result.kind = "throw"

\* C14: a query operation called without a query text is never suspended in
\* a connection to the vector store, an index build or a request: it is
\* answered in the step that starts it.
C14_EmptyQueryRejectedFirst ==
    \A c \in Calls :
        (/\ calls[c].input.operation \in {"semantic_search", "explain_semantic"}
         /\ calls[c].input.query = NoQuery)
        => calls[c].pc \in {"idle", "done"}

\* C15: when the caller waits for every call (the one that indexes /A and
\* /B) and no call is in flight, every entry of the collection is the entry
\* of a chunk of the current chunk set.
C15_CollectionIsLatestGeneration ==
    (~overlap /\ ~walks /\ \A c \in Calls : calls[c].pc \in {"idle", "done"}) =>
        \A i \in 1..Len(collection) :
            \E k \in 1..Len(heap[codeChunks]) :
                /\ heap[codeChunks][k].id = collection[i].id
                /\ heap[codeChunks][k].file = collection[i].metadata.file

\* C16: for the caller that waits for every call, the answer to an embedding
\* request never ends the build: the loop goes on or the build goes on to
\* the store; no chunk is added or removed; a failed request leaves its
\* chunk as it was, without embedding; a request that succeeded sets the
\* embedding of its chunk; no other chunk changes.
C16_EmbedFailureKeepsChunk ==
    [][\A c \in Calls :
         (~overlap /\ calls[c].pc = "embedding" /\ calls'[c] # calls[c]) =>
         LET a == calls[c].arr
             i == calls[c].idx
         IN  /\ calls'[c].pc \in {"embedding", "store"}
             /\ a = codeChunks /\ codeChunks' = codeChunks
             /\ Len(heap'[a]) = Len(heap[a])
             /\ \A k \in 1..Len(heap[a]) : k # i => heap'[a][k] = heap[a][k]
             /\ IF failures' # failures
                THEN heap'[a][i] = heap[a][i] /\ heap[a][i].embedding = NoEmbedding
                ELSE /\ heap'[a][i].embedding # NoEmbedding
                     /\ [heap'[a][i] EXCEPT !.embedding = NoEmbedding]
                          = [heap[a][i] EXCEPT !.embedding = NoEmbedding]]_vars

\* An index build with an API key has finished with all its chunks, some of
\* them with an embedding and one without.
C16_Witness ==
    /\ ~overlap
    /\ failures >= 1
    /\ \E c \in Calls :
         /\ calls[c].pc = "done"
         /\ calls[c].input.operation = "analyze_ast"
         /\ calls[c].result.kind = "text"
         /\ calls[c].result.summary.chunks = Len(CompleteGeneration(calls[c].input.path))
         /\ calls[c].result.summary.embedded >= 1
         /\ calls[c].result.summary.embedded < calls[c].result.summary.chunks

\* C17: for the caller that waits for every call, the chunk set of a finished
\* build of /B, whose first file e.js fails to parse, is the chunks of its
\* other file s.ts, in full.
C17_ParseFailureIsIsolated ==
    (~overlap /\ currentPath = PathB /\ \A c \in Calls : ~Building(c)) =>
        [i \in 1..Len(heap[codeChunks]) |->
            [heap[codeChunks][i] EXCEPT !.embedding = NoEmbedding]]
          = parseFileAST(FileS, PathB).chunks

\* The build of /B has finished and reports the two chunks of s.ts.
C17_Witness ==
    /\ ~overlap
    /\ currentPath = PathB
    /\ babelParseThrows(parseDirectoryAST(PathB, 0)[1])
    /\ \E c \in Calls :
         /\ calls[c].pc = "done"
         /\ calls[c].input.operation = "analyze_ast"
         /\ calls[c].result.kind = "text"
         /\ calls[c].result.summary.chunks = 2

\* The result r is what a search for the query without a kind filter gives
\* over the chunk set and the collection of the current state.
IsSearchOf(r, query, threshold, maxResults) ==
    /\ r.kind = "text"
    /\ \/ /\ r.backend = "lexical"
          /\ r.blocks = performInMemorySearch(heap[codeChunks], query, threshold,
                             maxResults, "all").blocks
       \/ /\ r.backend = "vector"
          /\ r.blocks = formatSearchResults(
                             collectionQuery(collection, embeddingOf(query),
                                             maxResults, "all"), threshold).blocks

\* C18: the text an explain call hands to the explanation is a search with
\* threshold 0.6 and limit 5; without an API key the call returns that text
\* followed by the hint; the answer of the explanation ends the call with a
\* text, never an exception: the explanation, or on failure the search text
\* unchanged, followed by the warning.
C18_ExplainDegrades ==
    [][\A c \in Calls :
         LET input == IF calls[c].pc = "idle" THEN calls'[c].input ELSE calls[c].input IN
         (input.operation = "explain_semantic" /\ calls'[c] # calls[c]) =>
            /\ (calls'[c].pc = "explaining")
                 => /\ apiKey
                    /\ IsSearchOf(calls'[c].result, input.query, 60, 5)
                    /\ calls'[c].result.note = "none"
            /\ (calls[c].pc = "explaining")
                 => /\ calls'[c].pc = "done"
                    /\ calls'[c].result.kind = "text"
                    /\ \/ calls'[c].result.note = "explanation"
                       \/ calls'[c].result = [calls[c].result EXCEPT !.note = "warning"]
            /\ (calls'[c].pc = "done" /\ calls[c].pc \notin {"explaining", "done"}
                   /\ calls'[c].result.kind = "text")
                 => /\ ~apiKey
                    /\ IsSearchOf(calls'[c].result, input.query, 60, 5)
                    /\ calls'[c].result.note = "no_key"]_vars

\* The explanation of an explain call failed and the call returned the
\* results of its search, followed by the warning.
C18_Witness ==
    \E c \in Calls :
        /\ calls[c].pc = "done"
        /\ calls[c].input.operation = "explain_semantic"
        /\ calls[c].result.kind = "text"
        /\ calls[c].result.note = "warning"
        /\ Len(calls[c].result.blocks) >= 1

\* C19: for the caller that waits for every call, an index build of the path
\* that was the current one when the call was made ends with the set of
\* chunk ids the chunk set had when the call was made.
C19_ReindexKeepsIds ==
    \A c \in Calls :
        (/\ ~overlap
         /\ calls[c].pc = "done"
         /\ calls[c].input.operation = "analyze_ast"
         /\ calls[c].result.kind = "text"
         /\ calls[c].old.path = calls[c].input.path)
        => {heap[codeChunks][i].id : i \in 1..Len(heap[codeChunks])} = calls[c].old.ids

\* The second index build of /A in a row has finished.
C19_Witness ==
    \E c \in Calls :
        /\ ~overlap
        /\ started = 2
        /\ calls[c].pc = "done"
        /\ calls[c].input.operation = "analyze_ast"
        /\ calls[c].result.kind = "text"
        /\ calls[c].input.path = PathA
        /\ calls[c].old.path = PathA
        /\ Cardinality(calls[c].old.ids) = 3

C21_FindSimilarIsSearch ==
    [][\A c \in Calls :
         (Returns(c, "find_similar") /\ calls'[c].result.kind = "text") =>
            /\ IsSearchOf(calls'[c].result, calls'[c].input.query,
                          calls'[c].input.threshold, calls'[c].input.maxResults)
            /\ ~isInitialized(vectorDB) => calls'[c].result.backend = "lexical"]_vars

\* A find_similar call that carries the kind filter 'class' returned a
\* function among its results.
C21_Witness ==
    \E c \in Calls :
        /\ calls[c].pc = "done"
        /\ calls[c].input.operation = "find_similar"
        /\ calls[c].input.codeType = "class"
        /\ calls[c].result.kind = "text"
        /\ \E i \in 1..Len(calls[c].result.blocks) :
             calls[c].result.blocks[i].type = "function"

\* C26: a lexical search returns the first max_results candidates in the
\* order of the chunk set, a candidate being a chunk of the kind asked for
\* whose name, content or context contains the whole lower-cased query; each
\* candidate has similarity exactly 1, so no threshold from 0 to 1 removes
\* one.
C26_CandidatesScoreOne ==
    [][\A c \in Calls :
         (/\ Returns(c, "semantic_search")
          /\ calls'[c].result.kind = "text"
          /\ calls'[c].result.backend = "lexical") =>
            LET input == calls'[c].input
                queryLower == toLowerCase(input.query)
            IN  \A blocks \in {calls'[c].result.blocks} :
                \A candidates \in
                    {SelectSeq(heap[codeChunks], LAMBDA chunk :
                        /\ input.codeType = "all" \/ chunk.type = input.codeType
                        /\ \/ includes(toLowerCase(chunk.name), queryLower)
                           \/ includes(toLowerCase(chunk.content), queryLower)
                           \/ includes(toLowerCase(chunk.context), queryLower))} :
                    /\ \A i \in 1..Len(candidates) :
                         \A similarity \in {calculateTextSimilarity(input.query, candidates[i])} :
                             similarity.d > 0 /\ similarity.n = similarity.d
                    /\ Len(blocks) = Min(Len(candidates), input.maxResults)
                    /\ \A i \in 1..Len(blocks) :
                         /\ IsBlockOf(blocks[i], candidates[i])
                         /\ blocks[i].similarity.n = blocks[i].similarity.d
                         /\ blocks[i].shown = 1000]_vars

\* A lexical search with threshold 1 returned as many results as its limit
\* allows, the second of them a chunk that holds the query in its context
\* only.
C26_Witness ==
    \E c \in Calls :
        /\ SearchDone(c)
        /\ calls[c].result.backend = "lexical"
        /\ calls[c].input.threshold = 100
        /\ calls[c].input.maxResults >= 2
        /\ Len(calls[c].result.blocks) = calls[c].input.maxResults
        /\ calls[c].result.blocks[2].name = <<"f">>

\* C29: the AST node list and the chunk list have the same length, and the
\* i-th node and the i-th chunk describe the same unit (name, file, line),
\* in every state, so also after any index build.
C29_NodesMatchChunks ==
    /\ Len(astNodes) = Len(heap[codeChunks])
    /\ \A i \in 1..Len(astNodes) :
         /\ astNodes[i].name = heap[codeChunks][i].name
         /\ astNodes[i].location.file = heap[codeChunks][i].file
         /\ astNodes[i].location.line = heap[codeChunks][i].line

\* An index build has returned with four nodes and four chunks; the last
\* unit is an arrow function, whose node and chunk differ in type only.
C29_Witness ==
    \E c \in Calls :
        /\ calls[c].pc = "done"
        /\ calls[c].input.operation = "analyze_ast"
        /\ calls[c].result.kind = "text"
        /\ Len(astNodes) = 4
        /\ astNodes[4].type = "arrow_function"
        /\ heap[codeChunks][4].type = "function"

\* C28: every call that has gone past the initialisation step of _run finds
\* this.vectorDB set, to the outcome of the one connection attempt.
C28_InitializedBeforeUse ==
    \A c \in Calls :
        calls[c].pc \notin {"idle", "connecting"} => vectorDB # "null"

\* C24: the walk of an index build ends, since every step of it shortens
\* the list of files it has still to visit, and every step that changes the
\* chunk set (empty at first) or the current path leaves in it no chunk of
\* a file inside a directory of the skip list, of a directory more than 10
\* levels below the root, of a file with an unsupported extension, or of a
\* file of more than 100000 characters.
C24_WalkIsBounded ==
    [][/\ \A c \in Calls :
            (calls[c].pc = "parse" /\ calls'[c] # calls[c]) =>
               \/ calls'[c].pc \in {"embed", "done"}
               \/ /\ calls'[c].pc = "parse"
                  /\ Len(calls'[c].files) < Len(calls[c].files)
       /\ (heap'[codeChunks'] # heap[codeChunks] \/ currentPath' # currentPath) =>
          \A i \in 1..Len(heap'[codeChunks']) :
            \A f \in Files :
               heap'[codeChunks'][i].file = relative(currentPath', f) =>
                  /\ \A k \in (Len(currentPath') + 1)..(Len(f) - 1) :
                       f[k] \notin
                         { <<"n", "o", "d", "e", "_", "m", "o", "d", "u", "l", "e", "s">>,
                           <<".", "g", "i", "t">>, <<"d", "i", "s", "t">>,
                           <<"b", "u", "i", "l", "d">>, <<".", "n", "e", "x", "t">>,
                           <<"c", "o", "v", "e", "r", "a", "g", "e">> }
                  /\ Len(f) - 1 - Len(currentPath') <= 10
                  /\ extname(f) \in { <<".", "j", "s">>, <<".", "t", "s">>,
                                       <<".", "j", "s", "x">>, <<".", "t", "s", "x">>,
                                       <<".", "m", "j", "s">> }
                  /\ Len(readFileSync(f)) <= 100000]_vars

\* An index build of /C has returned: of the files of the tree only f.js,
\* in the directory at level 10, gave a chunk.
C24_Witness ==
    \E c \in Calls :
        /\ calls[c].pc = "done"
        /\ calls[c].input.operation = "analyze_ast"
        /\ calls[c].input.path = PathC
        /\ calls[c].result.kind = "text"
        /\ currentPath = PathC
        /\ Len(heap[codeChunks]) = 1
        /\ heap[codeChunks][1].file = relative(PathC, FileDeepest)

\* The walk of a build of directory p comes to no directory it cannot read.
WalkCompletes(p) == ~walkThrows(parseDirectoryAST(p, 0))

\* C27: for the caller that waits for every call: when no index build is in
\* flight and the current path is P, a build of P can run to completion and
\* the chunk set is its output; so the search of a call that carries the
\* path P is never answered from the chunks of a build that stopped.
C27_CurrentPathMeansCompleteBuild ==
    (~overlap /\ \A c \in Calls : ~Building(c)) =>
        /\ currentPath # NoPath =>
              /\ WalkCompletes(currentPath)
              /\ ChunkIds(heap[codeChunks]) = ChunkIds(CompleteGeneration(currentPath))
        /\ \A c \in Calls :
              (SearchDone(c) /\ calls[c].input.path # NoPath) =>
                 WalkCompletes(calls[c].input.path)

\* C25: the dependency graph a call returns lists every function chunk of
\* the chunk set that has dependencies, under its name, with those
\* dependencies.
C25_GraphHasFunctionDependencies ==
    \A c \in Calls :
        (/\ ~overlap
         /\ calls[c].pc = "done"
         /\ calls[c].input.operation = "dependency_graph"
         /\ calls[c].result.kind = "text") =>
            \A i \in 1..Len(heap[codeChunks]) :
                LET chunk == heap[codeChunks][i] IN
                (chunk.type = "function" /\ Len(chunk.dependencies) > 0) =>
                    \E k \in 1..Len(calls[c].result.graph) :
                        /\ calls[c].result.graph[k].name = chunk.name
                        /\ {calls[c].result.graph[k].deps[j] :
                              j \in 1..Len(calls[c].result.graph[k].deps)}
                             = {chunk.dependencies[j] : j \in 1..Len(chunk.dependencies)}

\* The last n elements of a sequence (all of it when it is shorter).
LastOf(xs, n) == SubSeq(xs, Max(1, Len(xs) - n + 1), Len(xs))

\* C22: after any sequence of addEntry calls the memory holds at most
\* maxEntries entries, and they are the most recently added ones in the
\* order they were added: getHistory returns the last maxEntries entries
\* added, getLastEntries(k) the last k of those.
C22_KeepsMostRecent ==
    /\ Len(memory.entries) <= memory.maxEntries
    /\ getHistory(memory) = LastOf(history, memory.maxEntries)
    /\ \A k \in 1..MaxMemOps :
         getLastEntries(memory, k) = LastOf(history, Min(k, memory.maxEntries))

\* A memory for two entries has been given three: the first one is gone.
C22_Witness ==
    /\ memory.maxEntries = 2
    /\ Len(history) = 3
    /\ Len(memory.entries) = 2
    /\ memory.entries[1] = history[2]
    /\ memory.entries[2] = history[3]
    /\ memory.entries[1] # history[1]

\* The lines of the files a pattern matches, each line tested on its own:
\* one list of matches for every file.
RECURSIVE matchingLines(_, _)
matchingLines(pattern, files) ==
    IF Len(files) = 0 THEN <<>>
    ELSE LET lines == splitLines(files[1].content)
             RECURSIVE from(_)
             from(k) ==
                 IF k > Len(lines) THEN <<>>
                 ELSE (IF regexTest(pattern, lines[k], 0).found
                       THEN << [file |-> files[1].path, line |-> k,
                                content |-> trim(lines[k])] >>
                       ELSE <<>>) \o from(k + 1)
         IN  <<from(1)>> \o matchingLines(pattern, Tail(files))

\* C23: search, find_function and find_class report a line of an indexed
\* file exactly when the line matches the pattern, whatever was examined
\* before it: search the first 5 matching lines of each of the first 10
\* files with a match, find_function and find_class every matching line.
C23_ReportedIffMatches ==
    /\ (output.operation = "search" /\ output.text \in {"results", "no matches"}) =>
         LET perFile == SelectSeq(matchingLines(searchRegex(output.query),
                                                codebaseIndex.files),
                                  LAMBDA matches : Len(matches) > 0)
             shown == [i \in 1..Len(perFile) |-> slice0(perFile[i], 5)]
         IN  output.results = flatten(slice0(shown, 10))
    /\ (output.operation = "find_function"
          /\ output.text \in {"results", "no matches"}) =>
         output.results = flatten(matchingLines(functionRegex(output.query),
                                                codebaseIndex.files))
    /\ (output.operation = "find_class"
          /\ output.text \in {"results", "no matches"}) =>
         output.results = flatten(matchingLines(classRegex(output.query),
                                                codebaseIndex.files))

\* The operations that read the index and change nothing.
ReadOnlyOperations == FormatOperations \cup {"summary", "explain"}

\* C30: once analyzeCodebase has run to its end for a directory, every
\* read-only operation on the index returns a text and throws nothing (a
\* call that names another path and fails to analyze it is not meant).
C30_ReadOnlyReturnsText ==
    (/\ analyzedOk
     /\ output.operation \in ReadOnlyOperations
     /\ output.thrownBy # "analyzeCodebase")
        => output.kind = "text"

====
